---------------------------- MODULE Spec2Model ----------------------------
(***************************************************************************)
(* Conversation extraction of mcp-server-cursorshare (src/src/extractor.ts) *)
(*                                                                         *)
(* extractor.ts holds two snapshots of the extractor:                      *)
(*   lines    1..1235  the database path  (async extractConversation)      *)
(*   lines 1236..1893  the in-memory path (extractConversation(context))   *)
(* Both entry points are modelled; Init chooses which one is called.       *)
(***************************************************************************)
EXTENDS Integers, Sequences, FiniteSets, TLC

(***************************************************************************)
(* JavaScript values.  A string is a sequence of symbols; " " and "LF" are *)
(* the whitespace symbols.  An object is an insertion-ordered list of      *)
(* <<key, value>> pairs, a key being the sequence of its '.'-separated     *)
(* segments ("a.b" is <<"a","b">>).  Up(n) is a reference to the n-th      *)
(* enclosing container, which is how self-referential graphs are written.  *)
(* A long string is kept as its runs of equal symbols, Runs(r), r being a  *)
(* sequence of [c, n]: the symbol c repeated n times.                      *)
(***************************************************************************)
Undef == [t |-> "undef"]
Null == [t |-> "null"]
Str(s) == [t |-> "str", s |-> s]
Num(n) == [t |-> "num", n |-> n]
Bool(b) == [t |-> "bool", b |-> b]
Arr(e) == [t |-> "arr", e |-> e]
Obj(kv) == [t |-> "obj", kv |-> kv]
Up(n) == [t |-> "up", n |-> n]

\* a one-symbol string such as 'user', and a field with an undotted key
W(w) == Str(<<w>>)
F(name, v) == << <<name>>, v >>

EmptyStr == Str(<<>>)

IsStr(v) == v.t = "str"
IsArray(v) == v.t = "arr"
IsObjectType(v) == v.t \in {"obj", "arr", "null"}
Nullish(v) == v.t \in {"undef", "null"}
StrIs(v, w) == v.t = "str" /\ v.s = <<w>>

Runs(r) == [t |-> "str", r |-> r]
IsRuns(v) == "r" \in DOMAIN v

RECURSIVE RunLength(_)
RunLength(r) == IF r = <<>> THEN 0 ELSE Head(r).n + RunLength(Tail(r))

\* String.prototype.length
StrLength(v) == IF IsRuns(v) THEN RunLength(v.r) ELSE Len(v.s)

RECURSIVE TakeRuns(_, _)
TakeRuns(r, k) ==
  IF r = <<>> \/ k <= 0 THEN <<>>
  ELSE IF Head(r).n <= k THEN <<Head(r)>> \o TakeRuns(Tail(r), k - Head(r).n)
  ELSE <<[c |-> Head(r).c, n |-> k]>>

\* String.prototype.substring(0, k)
Substring(v, k) ==
  IF IsRuns(v) THEN Runs(TakeRuns(v.r, k))
  ELSE Str(SubSeq(v.s, 1, IF k < Len(v.s) THEN k ELSE Len(v.s)))

RECURSIVE AppendSymbols(_, _)
AppendSymbols(r, syms) ==
  IF syms = <<>> THEN r
  ELSE AppendSymbols(
         IF r # <<>> /\ r[Len(r)].c = Head(syms)
           THEN [r EXCEPT ![Len(r)].n = @ + 1]
           ELSE Append(r, [c |-> Head(syms), n |-> 1]),
         Tail(syms))

\* v + "..." for the string of symbols syms
Concat(v, syms) == IF IsRuns(v) THEN Runs(AppendSymbols(v.r, syms)) ELSE Str(v.s \o syms)

\* JavaScript truthiness
Truthy(v) ==
  CASE v.t = "undef" -> FALSE
    [] v.t = "null" -> FALSE
    [] v.t = "bool" -> v.b
    [] v.t = "num" -> v.n # 0
    [] v.t = "str" -> StrLength(v) > 0
    [] OTHER -> TRUE

Whitespace == {" ", "LF"}

RECURSIVE TrimStart(_)
TrimStart(s) ==
  IF s # <<>> /\ Head(s) \in Whitespace THEN TrimStart(Tail(s)) ELSE s

RECURSIVE TrimEnd(_)
TrimEnd(s) ==
  IF s # <<>> /\ s[Len(s)] \in Whitespace
    THEN TrimEnd(SubSeq(s, 1, Len(s) - 1))
    ELSE s

\* String.prototype.trim
Trim(s) == TrimEnd(TrimStart(s))

\* Array.prototype.join('\n') over a sequence of strings
RECURSIVE JoinLF(_)
JoinLF(ss) ==
  IF ss = <<>> THEN <<>>
  ELSE IF Len(ss) = 1 THEN ss[1]
  ELSE ss[1] \o <<"LF">> \o JoinLF(Tail(ss))

(***************************************************************************)
(* A cursor is a value together with the chain of containers it was        *)
(* reached through, so that an Up(n) reference can be followed.            *)
(***************************************************************************)
Cur(chain, v) == [c |-> chain, v |-> v]

Root(v) == Cur(<<>>, v)

\* the cursor of a raw child value of the container under cur
Step(cur, raw) ==
  IF raw.t = "up"
    THEN LET anc == Append(cur.c, cur.v)
             idx == Len(anc) - raw.n + 1
         IN  Cur(SubSeq(anc, 1, idx - 1), anc[idx])
    ELSE Cur(Append(cur.c, cur.v), raw)

HasKey(o, key) == \E i \in 1..Len(o.kv) : o.kv[i][1] = key

RawAt(o, key) ==
  LET i == CHOOSE j \in 1..Len(o.kv) :
             o.kv[j][1] = key /\ \A k \in 1..(j - 1) : o.kv[k][1] # key
  IN  o.kv[i][2]

\* property read cur.name of a value that is not null or undefined
Prop(cur, name) ==
  IF cur.v.t = "obj" /\ HasKey(cur.v, <<name>>)
    THEN Step(cur, RawAt(cur.v, <<name>>))
    ELSE Cur(<<>>, Undef)

\* the elements of an array, as cursors
Elems(cur) == [i \in 1..Len(cur.v.e) |-> Step(cur, cur.v.e[i])]

\* the own enumerable properties of an object, in insertion order
Keys(cur) == [i \in 1..Len(cur.v.kv) |-> cur.v.kv[i][1]]

(***************************************************************************)
(* JSON.stringify throws on a circular structure: a value that holds a     *)
(* reference to one of its enclosing containers.                           *)
(***************************************************************************)
RECURSIVE HasUp(_)
HasUp(v) ==
  CASE v.t = "up" -> TRUE
    [] v.t = "arr" -> \E i \in 1..Len(v.e) : HasUp(v.e[i])
    [] v.t = "obj" -> \E i \in 1..Len(v.kv) : HasUp(v.kv[i][2])
    [] OTHER -> FALSE

StringifyThrows(cur) == HasUp(cur.v)

(***************************************************************************)
(* FormattedMessage.  The in-memory parsers build {role, content}; the     *)
(* database parsers build {role, content, timestamp}.                      *)
(***************************************************************************)
Msg(role, content) == [role |-> role, content |-> content]
MsgT(role, content, ts) == [role |-> role, content |-> content, timestamp |-> ts]

CanonicalRoles == {"user", "assistant", "system", "function"}

IsCanonicalRole(v) == v.t = "str" /\ \E r \in CanonicalRoles : v.s = <<r>>

\* determineRole with the isUser test ahead of the role test
determineRoleIsUserFirst(msg) ==
  LET role == Prop(msg, "role").v
      isUser == Prop(msg, "isUser").v
  IN  IF isUser.t = "bool" /\ isUser.b THEN W("user")
      ELSE IF isUser.t = "bool" /\ ~isUser.b THEN W("assistant")
      ELSE IF IsCanonicalRole(role) THEN role
      ELSE W("user")

\* determineRole of the database snapshot (numeric type aliases included)
determineRoleDb(msg) ==
  LET role == Prop(msg, "role").v
      isUser == Prop(msg, "isUser").v
      type == Prop(msg, "type").v
      sender == Prop(msg, "sender").v
  IN  IF IsCanonicalRole(role) THEN role
      ELSE IF isUser.t = "bool" /\ isUser.b THEN W("user")
      ELSE IF isUser.t = "bool" /\ ~isUser.b THEN W("assistant")
      ELSE IF StrIs(type, "user") \/ StrIs(type, "human") THEN W("user")
      ELSE IF StrIs(type, "assistant") \/ StrIs(type, "ai") \/ StrIs(type, "bot")
        THEN W("assistant")
      ELSE IF type.t = "num" /\ type.n = 1 THEN W("user")
      ELSE IF type.t = "num" /\ type.n = 2 THEN W("assistant")
      ELSE IF StrIs(sender, "user") \/ StrIs(sender, "human") THEN W("user")
      ELSE IF StrIs(sender, "assistant") \/ StrIs(sender, "ai") \/ StrIs(sender, "bot")
        THEN W("assistant")
      ELSE W("user")

\* determineRole of the in-memory snapshot
determineRole(msg) ==
  LET role == Prop(msg, "role").v
      isUser == Prop(msg, "isUser").v
      type == Prop(msg, "type").v
      sender == Prop(msg, "sender").v
  IN  IF IsCanonicalRole(role) THEN role
      ELSE IF isUser.t = "bool" /\ isUser.b THEN W("user")
      ELSE IF isUser.t = "bool" /\ ~isUser.b THEN W("assistant")
      ELSE IF StrIs(type, "user") \/ StrIs(type, "human") THEN W("user")
      ELSE IF StrIs(type, "assistant") \/ StrIs(type, "ai") \/ StrIs(type, "bot")
        THEN W("assistant")
      ELSE IF StrIs(sender, "user") \/ StrIs(sender, "human") THEN W("user")
      ELSE IF StrIs(sender, "assistant") \/ StrIs(sender, "ai") \/ StrIs(sender, "bot")
        THEN W("assistant")
      ELSE W("user")

\* determineRole of share.ts: no isUser test
determineRoleShare(msg) ==
  LET role == Prop(msg, "role").v
      type == Prop(msg, "type").v
      sender == Prop(msg, "sender").v
  IN  IF IsCanonicalRole(role) THEN role
      ELSE IF StrIs(type, "user") \/ StrIs(type, "human") THEN W("user")
      ELSE IF StrIs(type, "assistant") \/ StrIs(type, "ai") \/ StrIs(type, "bot")
        THEN W("assistant")
      ELSE IF StrIs(sender, "user") \/ StrIs(sender, "human") THEN W("user")
      ELSE IF StrIs(sender, "assistant") \/ StrIs(sender, "ai") \/ StrIs(sender, "bot")
        THEN W("assistant")
      ELSE W("user")

\* the first statement of determineRole reads msg.role: a TypeError when
\* msg is null or undefined
determineRoleThrows(msg) == Nullish(msg.v)

\* msg.role || (msg.isUser ? 'user' : 'assistant')
RoleOrIsUser(msg) ==
  LET role == Prop(msg, "role").v
  IN  IF Truthy(role) THEN role
      ELSE IF Truthy(Prop(msg, "isUser").v) THEN W("user")
      ELSE W("assistant")

(***************************************************************************)
(* Content coercions, one per family of parsers.                           *)
(***************************************************************************)
\* typeof content === 'string' ? content
\*   : (content && content.text ? content.text : (text || ""))
CoerceFlat(msg) ==
  LET c == Prop(msg, "content")
      t == Prop(msg, "text").v
  IN  IF IsStr(c.v) THEN c.v
      ELSE IF Truthy(c.v) /\ Truthy(Prop(c, "text").v) THEN Prop(c, "text").v
      ELSE IF Truthy(t) THEN t
      ELSE EmptyStr

\* one part of an array-typed content
PartText(part) ==
  IF IsStr(part.v) THEN part.v.s
  ELSE IF Truthy(part.v) /\ IsStr(Prop(part, "text").v) THEN Prop(part, "text").v.s
  ELSE <<>>

\* content, else text, else content.text, else the parts of an array content
CoerceFull(msg) ==
  LET c == Prop(msg, "content")
      t == Prop(msg, "text").v
  IN  IF IsStr(c.v) THEN c.v
      ELSE IF IsStr(t) THEN t
      ELSE IF Truthy(c.v) /\ IsStr(Prop(c, "text").v) THEN Prop(c, "text").v
      ELSE IF Truthy(c.v) /\ IsArray(c.v)
        THEN Str(JoinLF([i \in 1..Len(c.v.e) |-> PartText(Elems(c)[i])]))
      ELSE EmptyStr

\* extractFromArrayContext: content, else text, else content.text
CoerceArrayContext(msg) ==
  LET c == Prop(msg, "content")
      t == Prop(msg, "text").v
  IN  IF IsStr(c.v) THEN c.v
      ELSE IF IsStr(t) THEN t
      ELSE IF Truthy(c.v) /\ IsStr(Prop(c, "text").v) THEN Prop(c, "text").v
      ELSE EmptyStr

\* cursorContext.messages: content, else content.text, else message
CoerceCursorMessages(msg) ==
  LET c == Prop(msg, "content")
      m == Prop(msg, "message").v
  IN  IF IsStr(c.v) THEN c.v
      ELSE IF Truthy(c.v) /\ IsStr(Prop(c, "text").v) THEN Prop(c, "text").v
      ELSE IF IsStr(m) THEN m
      ELSE EmptyStr

\* cursorContext.chat.messages: content, else content.text
CoerceCursorChat(msg) ==
  LET c == Prop(msg, "content")
  IN  IF IsStr(c.v) THEN c.v
      ELSE IF Truthy(c.v) /\ IsStr(Prop(c, "text").v) THEN Prop(c, "text").v
      ELSE EmptyStr

\* processChatData and processComposerContent: text, else content
CoerceStore(msg) ==
  LET c == Prop(msg, "content").v
      t == Prop(msg, "text").v
  IN  IF IsStr(t) THEN t
      ELSE IF IsStr(c) THEN c
      ELSE EmptyStr

\* findMessagesRecursively: content, else text, else message, else content.text
CoerceRecursive(msg) ==
  LET c == Prop(msg, "content")
      t == Prop(msg, "text").v
      m == Prop(msg, "message").v
  IN  IF IsStr(c.v) THEN c.v
      ELSE IF IsStr(t) THEN t
      ELSE IF IsStr(m) THEN m
      ELSE IF Truthy(c.v) /\ IsStr(Prop(c, "text").v) THEN Prop(c, "text").v
      ELSE EmptyStr

(***************************************************************************)
(* array.map(conv).filter(msg => msg.content && msg.content.trim() !== "") *)
(* inside a try block.  The map throws on a null or undefined element      *)
(* (property read) and, with debug on, on a first element that             *)
(* JSON.stringify rejects; the filter throws on a truthy content that is   *)
(* not a string (it has no trim).                                          *)
(***************************************************************************)
\* KeepMessage without the trim: a filter that keeps whitespace-only content
KeepMessageNoTrim(m) == Truthy(m.content)

KeepMessage(m) == Truthy(m.content) /\ Trim(m.content.s) # <<>>

FilterThrows(m) == Truthy(m.content) /\ ~IsStr(m.content)

\* elems: the array; mapped: what the map callback makes of each element
MapFilter(elems, mapped, dbg) ==
  LET n == Len(elems)
      mapThrows == \/ \E i \in 1..n : Nullish(elems[i].v)
                   \/ dbg /\ n > 0 /\ StringifyThrows(elems[1])
  IN  IF mapThrows \/ \E i \in 1..n : FilterThrows(mapped[i])
        THEN [ok |-> FALSE, msgs |-> <<>>]
        ELSE [ok |-> TRUE, msgs |-> SelectSeq(mapped, KeepMessage)]

(***************************************************************************)
(* The shape parsers of the in-memory snapshot.  Each takes the cursor of  *)
(* the context and the debug flag and returns a message list.              *)
(***************************************************************************)
MAX_LENGTH == 100000

TruncationMarker == <<".", ".", ".", " ", "(truncated)">>

\* truncateLongMessages with >= in place of > in its length test
truncateAtCap(messages) ==
  [i \in 1..Len(messages) |->
     LET msg == messages[i]
     IN  IF Truthy(msg.content) /\ IsStr(msg.content)
              /\ StrLength(msg.content) >= MAX_LENGTH
           THEN [msg EXCEPT !.content =
                   Concat(Substring(msg.content, MAX_LENGTH), TruncationMarker)]
           ELSE msg]

truncateLongMessages(messages) ==
  [i \in 1..Len(messages) |->
     LET msg == messages[i]
     IN  IF Truthy(msg.content) /\ IsStr(msg.content)
              /\ StrLength(msg.content) > MAX_LENGTH
           THEN [msg EXCEPT !.content =
                   Concat(Substring(msg.content, MAX_LENGTH), TruncationMarker)]
           ELSE msg]

LocalConv(msg) == Msg(determineRole(msg), CoerceFlat(msg))

processLocalContent(content) ==
  LET messages == Prop(content, "messages")
      conversation == Prop(content, "conversation")
  IN  IF ~Truthy(content.v) THEN <<>>
      ELSE IF Truthy(messages.v) /\ IsArray(messages.v)
        THEN MapFilter(Elems(messages),
                       [i \in 1..Len(Elems(messages)) |-> LocalConv(Elems(messages)[i])], FALSE).msgs
      ELSE IF Truthy(conversation.v) /\ IsArray(conversation.v)
        THEN MapFilter(Elems(conversation),
                       [i \in 1..Len(Elems(conversation)) |-> LocalConv(Elems(conversation)[i])], FALSE).msgs
      ELSE IF IsStr(Prop(content, "text").v) \/ IsStr(content.v)
        THEN LET text == IF IsStr(content.v) THEN content.v ELSE Prop(content, "text").v
             IN  << Msg(W("user"), text) >>
      ELSE <<>>

\* context.name || context.holder?.id
IdOf(context, name, holder) ==
  LET direct == Prop(context, name).v
      h == Prop(context, holder)
  IN  IF Truthy(direct) THEN direct
      ELSE IF Nullish(h.v) THEN Undef
      ELSE Prop(h, "id").v

RECURSIVE Flatten(_)
Flatten(ss) == IF ss = <<>> THEN <<>> ELSE Head(ss) \o Flatten(Tail(ss))

extractFromLocalChatHistory(context) ==
  LET workspaceId == IdOf(context, "workspaceId", "workspace")
      composerId == IdOf(context, "composerId", "composer")
      localContent == Prop(context, "localContent")
      conversations == Prop(context, "conversations")
  IN  IF ~Truthy(workspaceId) /\ ~Truthy(composerId) THEN <<>>
      ELSE IF Truthy(localContent.v) THEN processLocalContent(localContent)
      ELSE IF Truthy(conversations.v) /\ IsArray(conversations.v)
        THEN LET cs == Elems(conversations)
                 inner(c) == LET m == Prop(c, "messages")
                             IN  IF Truthy(m.v) /\ IsArray(m.v) THEN Elems(m) ELSE <<>>
             IN  IF \E i \in 1..Len(cs) : Nullish(cs[i].v)
                   THEN <<>>
                   ELSE LET all == Flatten([i \in 1..Len(cs) |-> inner(cs[i])])
                        IN  MapFilter(all, [i \in 1..Len(all) |-> LocalConv(all[i])],
                                      FALSE).msgs
      ELSE <<>>

ChatHistoryConv(msg) == Msg(RoleOrIsUser(msg), CoerceFlat(msg))

extractFromChatHistory(context, dbg) ==
  LET chatHistory == Prop(context, "chatHistory")
  IN  IF ~Truthy(chatHistory.v) \/ ~IsArray(chatHistory.v)
        THEN extractFromLocalChatHistory(context)
        ELSE MapFilter(Elems(chatHistory),
                       [i \in 1..Len(Elems(chatHistory)) |-> ChatHistoryConv(Elems(chatHistory)[i])], dbg).msgs

ConversationConv(msg) == Msg(determineRole(msg), CoerceFull(msg))

extractFromConversation(context, dbg) ==
  LET conversation == Prop(context, "conversation")
  IN  IF ~IsArray(conversation.v) \/ Len(conversation.v.e) = 0
        THEN <<>>
        ELSE MapFilter(Elems(conversation),
                       [i \in 1..Len(Elems(conversation)) |-> ConversationConv(Elems(conversation)[i])], dbg).msgs

BubbleConv(bubble) == Msg(RoleOrIsUser(bubble), CoerceFull(bubble))

extractFromBubbles(context, dbg) ==
  LET bubbles == Prop(context, "bubbles")
  IN  IF ~IsArray(bubbles.v) \/ Len(bubbles.v.e) = 0
        THEN <<>>
        ELSE MapFilter(Elems(bubbles),
                       [i \in 1..Len(Elems(bubbles)) |-> BubbleConv(Elems(bubbles)[i])], dbg).msgs

\* context.messages || context.history || []
extractFromMessagesOrHistory(context, dbg) ==
  LET messages == Prop(context, "messages")
      history == Prop(context, "history")
      messageArray == IF Truthy(messages.v) THEN messages
                      ELSE IF Truthy(history.v) THEN history
                      ELSE Root(Arr(<<>>))
  IN  IF ~IsArray(messageArray.v) \/ Len(messageArray.v.e) = 0
        THEN <<>>
        ELSE MapFilter(Elems(messageArray),
                       [i \in 1..Len(Elems(messageArray)) |-> ConversationConv(Elems(messageArray)[i])], dbg).msgs

ArrayContextConv(msg) == Msg(determineRole(msg), CoerceArrayContext(msg))

extractFromArrayContext(context, dbg) ==
  IF ~IsArray(context.v) \/ Len(context.v.e) = 0
    THEN <<>>
    ELSE MapFilter(Elems(context),
                   [i \in 1..Len(Elems(context)) |-> ArrayContextConv(Elems(context)[i])], dbg).msgs

CursorMessagesConv(msg) == Msg(determineRole(msg), CoerceCursorMessages(msg))

CursorChatConv(msg) == Msg(determineRole(msg), CoerceCursorChat(msg))

extractFromCursorSpecific(context, dbg) ==
  LET cursorContext == Prop(context, "cursorContext")
      messages == Prop(cursorContext, "messages")
      chat == Prop(cursorContext, "chat")
      chatMessages == Prop(chat, "messages")
      first == IF IsArray(messages.v)
                 THEN MapFilter(Elems(messages),
                                [i \in 1..Len(Elems(messages)) |-> CursorMessagesConv(Elems(messages)[i])], dbg)
                 ELSE [ok |-> TRUE, msgs |-> <<>>]
  IN  IF ~Truthy(cursorContext.v) THEN <<>>
      ELSE IF ~first.ok THEN <<>>
      ELSE IF Len(first.msgs) > 0 THEN first.msgs
      ELSE IF Truthy(chat.v) /\ IsArray(chatMessages.v)
        THEN MapFilter(Elems(chatMessages),
                       [i \in 1..Len(Elems(chatMessages)) |-> CursorChatConv(Elems(chatMessages)[i])], dbg).msgs
      ELSE <<>>

(***************************************************************************)
(* findMessagesRecursively: the test of one array as a message array.      *)
(***************************************************************************)
DepthCap == 10

HasRoleProperty(item) ==
  \E name \in {"role", "type", "sender", "isUser"} : Prop(item, name).v.t # "undef"

HasContentProperty(item) ==
  \E name \in {"content", "text", "message"} : Prop(item, name).v.t # "undef"

LooksLikeMessage(item) ==
  /\ Truthy(item.v)
  /\ item.v.t \in {"obj", "arr"}
  /\ HasRoleProperty(item)
  /\ HasContentProperty(item)

RecursiveConv(item) == Msg(determineRole(item), CoerceRecursive(item))

\* obj.map(item => message or null).filter(non-null, non-empty content)
ArrayAsMessages(arr) ==
  LET items == SelectSeq(Elems(arr), LooksLikeMessage)
      mapped == [i \in 1..Len(items) |-> RecursiveConv(items[i])]
  IN  SelectSeq(mapped, KeepMessage)

\* EnoughMessages with the test messages.length > 0
EnoughMessagesOne(messages) == Len(messages) > 0

\* messages.length > 1
EnoughMessages(messages) == Len(messages) > 1

\* the values the loops of findMessagesRecursively visit, with the number
\* of '.'-separated segments each adds to the path
Children(cur) ==
  IF IsArray(cur.v)
    THEN [i \in 1..Len(cur.v.e) |-> [cur |-> Elems(cur)[i], add |-> 0]]
    ELSE [i \in 1..Len(cur.v.kv) |->
            [cur |-> Step(cur, cur.v.kv[i][2]), add |-> Len(cur.v.kv[i][1])]]

\* path.split('.').length > 10
TooDeep(segs) == segs > DepthCap

(***************************************************************************)
(* The stores.  A row is a key and a stored text; the text is empty, text  *)
(* that JSON.parse rejects, or the JSON text of a value.                   *)
(***************************************************************************)
NoValue == [k |-> "empty"]
BadJson == [k |-> "bad"]
Json(v) == [k |-> "json", v |-> v]

Row(key, value) == [key |-> key, value |-> value]

\* db.get found nothing
NoRow == Row("", NoValue)

\* result?.value
HasValue(row) == row.value.k # "empty"

\* SELECT value FROM table WHERE [key] = ?
Lookup(rows, key) ==
  IF \E i \in 1..Len(rows) : rows[i].key = key
    THEN rows[CHOOSE i \in 1..Len(rows) : rows[i].key = key]
    ELSE NoRow

\* the domain terms a key name contains (LIKE is case-insensitive)
Terms(key) ==
  CASE key \in {"workbench.panel.chat.view.chat.chatdata",
                "workbench.panel.aichat.view.aichat.chatdata",
                "aichat.chatData", "chat.data", "chat.sessions"} -> {"chat"}
    [] key \in {"aichat.history", "chat.history"} -> {"chat", "history"}
    [] key \in {"composer.composerData", "cursor.composerData", "cursorComposerData",
                "composer.data", "workbench.panel.composer.data",
                "composer.recent"} -> {"composer"}
    [] key = "conversation.list" -> {"conversation"}
    [] key = "history.entries" -> {"history"}
    [] OTHER -> {}

ScanLimit == 20

\* SELECT [key], value FROM table WHERE [key] LIKE '%term%' OR ... LIMIT 20
Scan(rows, terms) ==
  LET hits == SelectSeq(rows, LAMBDA r : Terms(r.key) \cap terms # {})
  IN  SubSeq(hits, 1, IF Len(hits) < ScanLimit THEN Len(hits) ELSE ScanLimit)

possibleKeys ==
  <<"workbench.panel.chat.view.chat.chatdata",
    "workbench.panel.aichat.view.aichat.chatdata",
    "aichat.chatData",
    "aichat.history",
    "chat.history",
    "chat.data">>

composerKeys ==
  <<"composer.composerData",
    "cursor.composerData",
    "cursorComposerData",
    "composer.data",
    "workbench.panel.composer.data",
    "workbench.panel.aichat.view.aichat.chatdata",
    "workbench.panel.chat.view.chat.chatdata">>

ChatScanTerms == {"chat", "conversation", "history"}
ComposerScanTerms == {"composer", "chat", "conversation"}
KvScanTerms == {"chat", "conversation"}

\* data.tabs || data.chats || data.messages || data.conversation, in a try
HasChatShape(value) ==
  /\ value.k = "json"
  /\ ~Nullish(value.v)
  /\ \E name \in {"tabs", "chats", "messages", "conversation"} :
       Truthy(Prop(Root(value.v), name).v)

\* the first scanned row, from position from on, that parses to a chat shape
FirstChatRow(rows, from) ==
  IF \E i \in from..Len(rows) : HasChatShape(rows[i].value)
    THEN CHOOSE i \in from..Len(rows) :
           HasChatShape(rows[i].value)
           /\ \A j \in from..(i - 1) : ~HasChatShape(rows[j].value)
    ELSE 0

\* parsed.allComposers || parsed.composers ||
\*   (Array.isArray(parsed) && parsed.length > 0 && parsed[0].composerId)
HasComposerShape(value) ==
  /\ value.k = "json"
  /\ ~Nullish(value.v)
  /\ LET parsed == Root(value.v)
     IN  \/ Truthy(Prop(parsed, "allComposers").v)
         \/ Truthy(Prop(parsed, "composers").v)
         \/ /\ IsArray(parsed.v) /\ Len(parsed.v.e) > 0
            /\ ~Nullish(Elems(parsed)[1].v)
            /\ Truthy(Prop(Elems(parsed)[1], "composerId").v)

FirstComposerRow(rows) ==
  IF \E i \in 1..Len(rows) : HasComposerShape(rows[i].value)
    THEN rows[CHOOSE i \in 1..Len(rows) :
                HasComposerShape(rows[i].value)
                /\ \A j \in 1..(i - 1) : ~HasComposerShape(rows[j].value)]
    ELSE NoRow

(***************************************************************************)
(* processChatData and processComposerContent.                             *)
(***************************************************************************)
\* msg.timestamp ? new Date(msg.timestamp) : undefined
TimestampOf(msg) ==
  LET ts == Prop(msg, "timestamp").v
  IN  IF Truthy(ts) THEN [t |-> "date", of |-> ts] ELSE Undef

StoreConv(msg) == MsgT(determineRoleDb(msg), CoerceStore(msg), TimestampOf(msg))

\* data.tabs[0]
FirstTab(tabs) == Elems(tabs)[1]

\* data.tabs[data.tabs.length - 1]
RecentTab(tabs) == Elems(tabs)[Len(tabs.v.e)]

\* data.chats[Object.keys(data.chats)[0]]
FirstChat(chats) == Children(chats)[1].cur

\* processChatData on a parsed record
processChatData(data) ==
  LET tabs == Prop(data, "tabs")
      hasTabs == Truthy(tabs.v) /\ IsArray(tabs.v) /\ Len(tabs.v.e) > 0
      tabConversation == Prop(RecentTab(tabs), "conversation")
      chats == Prop(data, "chats")
      hasChats == Truthy(chats.v) /\ chats.v.t \in {"obj", "arr"}
                    /\ Len(Children(chats)) > 0
      chatMessages == Prop(FirstChat(chats), "messages")
      dataMessages == Prop(data, "messages")
      conversation == Prop(data, "conversation")
  IN  IF ~Truthy(data.v) THEN <<>>
      ELSE IF hasTabs /\ Nullish(RecentTab(tabs).v) THEN <<>>
      ELSE IF hasTabs /\ Truthy(tabConversation.v) /\ IsArray(tabConversation.v)
        THEN MapFilter(Elems(tabConversation),
                       [i \in 1..Len(Elems(tabConversation)) |-> StoreConv(Elems(tabConversation)[i])], FALSE).msgs
      ELSE IF hasChats /\ Nullish(FirstChat(chats).v) THEN <<>>
      ELSE IF hasChats /\ Truthy(chatMessages.v) /\ IsArray(chatMessages.v)
        THEN MapFilter(Elems(chatMessages),
                       [i \in 1..Len(Elems(chatMessages)) |-> StoreConv(Elems(chatMessages)[i])], FALSE).msgs
      ELSE IF Truthy(dataMessages.v) /\ IsArray(dataMessages.v)
        THEN MapFilter(Elems(dataMessages),
                       [i \in 1..Len(Elems(dataMessages)) |-> StoreConv(Elems(dataMessages)[i])], FALSE).msgs
      ELSE IF Truthy(conversation.v) /\ IsArray(conversation.v)
        THEN MapFilter(Elems(conversation),
                       [i \in 1..Len(Elems(conversation)) |-> StoreConv(Elems(conversation)[i])], FALSE).msgs
      ELSE <<>>

\* processChatData on a stored text: JSON.parse first
processChatText(value) ==
  IF value.k # "json" THEN <<>>
  ELSE IF Nullish(value.v) THEN <<>>
  ELSE processChatData(Root(value.v))

processComposerContent(content, composer) ==
  LET conversation == Prop(content, "conversation")
      contentMessages == Prop(content, "messages")
      text == IF Truthy(Prop(content, "text").v)
                THEN Prop(content, "text").v
                ELSE Prop(composer, "text").v
  IN  IF ~Truthy(content.v) THEN <<>>
      ELSE IF Truthy(conversation.v) /\ IsArray(conversation.v)
        THEN MapFilter(Elems(conversation),
                       [i \in 1..Len(Elems(conversation)) |-> StoreConv(Elems(conversation)[i])], FALSE).msgs
      ELSE IF Truthy(contentMessages.v) /\ IsArray(contentMessages.v)
        THEN MapFilter(Elems(contentMessages),
                       [i \in 1..Len(Elems(contentMessages)) |-> StoreConv(Elems(contentMessages)[i])], FALSE).msgs
      ELSE IF Truthy(text) THEN << Msg(W("user"), text) >>
      ELSE <<>>

(***************************************************************************)
(* The choice of the composer in findComposerData.                         *)
(***************************************************************************)
\* (c.lastUpdatedAt || 0), for the numeric or absent values of the model
UpdatedAt(c) ==
  LET v == Prop(c, "lastUpdatedAt").v
  IN  IF v.t = "num" THEN v.n ELSE 0

\* Array.prototype.sort with (a, b) => b.k - a.k: stable, descending
RECURSIVE InsertDesc(_, _)
InsertDesc(sorted, c) ==
  IF sorted = <<>> THEN <<c>>
  ELSE IF c.k > Head(sorted).k THEN <<c>> \o sorted
  ELSE <<Head(sorted)>> \o InsertDesc(Tail(sorted), c)

RECURSIVE SortDesc(_)
SortDesc(cs) ==
  IF cs = <<>> THEN <<>>
  ELSE InsertDesc(SortDesc(SubSeq(cs, 1, Len(cs) - 1)), cs[Len(cs)])

IsRecord(c) == Truthy(c.v) /\ c.v.t \in {"obj", "arr"}

\* the composers of a parsed index, sorted; <<>> when there is none
SortedComposers(composerData) ==
  LET a == Prop(composerData, "allComposers")
      b == Prop(composerData, "composers")
      allComposers == IF Truthy(a.v) THEN a
                      ELSE IF Truthy(b.v) THEN b
                      ELSE IF IsArray(composerData.v) /\ Len(composerData.v.e) > 0
                        THEN composerData
                      ELSE Root(Null)
  IN  IF Truthy(allComposers.v) /\ IsArray(allComposers.v) /\ Len(allComposers.v.e) > 0
        THEN LET records == SelectSeq(Elems(allComposers), IsRecord)
                 sorted == SortDesc([i \in 1..Len(records) |->
                                       [k |-> UpdatedAt(records[i]), x |-> records[i]]])
             IN  [i \in 1..Len(sorted) |-> sorted[i].x]
        ELSE <<>>

\* recentComposer.composerId || recentComposer.id
ComposerId(c) ==
  IF Truthy(Prop(c, "composerId").v) THEN Prop(c, "composerId").v ELSE Prop(c, "id").v

\* the most recent composer of a stored index; Root(Null) when the text
\* does not parse, holds no composer, or the composer has no id
RecentComposer(value) ==
  IF value.k # "json" \/ Nullish(value.v) THEN Root(Null)
  ELSE LET sorted == SortedComposers(Root(value.v))
       IN  IF sorted # <<>> /\ Truthy(ComposerId(sorted[1]))
             THEN sorted[1]
             ELSE Root(Null)

\* `composerData:${composerId}`
ComposerKey(id) == <<"composerData:">> \o (IF IsStr(id) THEN id.s ELSE <<"?">>)

(***************************************************************************)
(* Bounds of the model and the input pools.                                *)
(***************************************************************************)
\* longest message array of a generated context
MaxArr == 2
\* deepest nesting of a generated context
MaxChain == 11
\* number of nested findMessagesRecursively calls the call stack can hold
StackLimit == 20

SeqsUpTo(S, n) == UNION {[1..k -> S] : k \in 0..n}

mUser == Obj(<<F("role", W("user")), F("content", Str(<<"a">>))>>)
mAsst == Obj(<<F("role", W("assistant")), F("content", Str(<<"b">>))>>)
mBlank == Obj(<<F("role", W("user")), F("content", Str(<<" ">>))>>)
mText == Obj(<<F("role", W("assistant")), F("text", Str(<<"c">>))>>)
mBot == Obj(<<F("role", W("bot")), F("content", Str(<<"a">>))>>)
mNoRole == Obj(<<F("content", Str(<<"a">>))>>)
mIsUser == Obj(<<F("isUser", Bool(FALSE)), F("text", Str(<<"b">>))>>)
mSender == Obj(<<F("sender", W("ai")), F("message", Str(<<"a">>))>>)
mNested == Obj(<<F("role", W("user")), F("content", Obj(<<F("text", Str(<<"a">>))>>))>>)
mParts == Obj(<<F("role", W("assistant")),
                F("content", Arr(<<Str(<<"a">>), Obj(<<F("text", Str(<<"b">>))>>), Num(5)>>))>>)
mEmptyThenText == Obj(<<F("role", W("user")), F("content", EmptyStr), F("text", Str(<<"a">>))>>)
mNumText == Obj(<<F("role", W("user")), F("text", Num(5))>>)
mCyclic == Obj(<<F("role", W("user")), F("content", Str(<<"a">>)), F("self", Up(1))>>)

\* records with a canonical role and one flat string body
WellFormedPool == {mUser, mAsst, mBlank, mText}

MsgPool == WellFormedPool \cup
  {mBot, mNoRole, mIsUser, mSender, mNested, mParts, mEmptyThenText, mNumText, mCyclic, Null}

MsgArrays == {Arr(s) : s \in SeqsUpTo(MsgPool, MaxArr)}

SmallArrays == {Arr(<<>>), Arr(<<mUser>>), Arr(<<mBlank>>), Arr(<<mAsst, mText>>)}

ShapeKeys == {"chatHistory", "conversation", "bubbles", "messages", "history"}

\* one known shape
ShapeContexts ==
  {Obj(<<F(k, a)>>) : k \in ShapeKeys, a \in MsgArrays} \cup MsgArrays

\* two known shapes at once
PairContexts ==
  {Obj(<<F(ks[1], a1), F(ks[2], a2)>>) :
     ks \in {p \in ShapeKeys \X ShapeKeys : p[1] # p[2]},
     a1 \in SmallArrays, a2 \in SmallArrays}

CursorContexts ==
  {Obj(<<F("cursorContext", Obj(<<F("messages", a1)>>)), F(k, a2)>>) :
     k \in ShapeKeys, a1 \in SmallArrays, a2 \in SmallArrays}
  \cup
  {Obj(<<F("cursorContext", Obj(<<F("messages", a1),
                                  F("chat", Obj(<<F("messages", a2)>>))>>))>>) :
     a1 \in SmallArrays \cup {Arr(<<Null>>)}, a2 \in SmallArrays}

LocalContents ==
  {Obj(<<F("messages", a)>>) : a \in SmallArrays} \cup
  {Obj(<<F("conversation", a)>>) : a \in SmallArrays} \cup
  {Obj(<<F("text", Str(<<"a">>))>>), Obj(<<F("text", Str(<<" ">>))>>),
   Obj(<<F("text", EmptyStr)>>), Str(<<"a">>), Str(<<" ">>), Num(5)}

LocalContexts ==
  {Obj(<<F("workspaceId", W("w")), F("localContent", c), F("conversation", a)>>) :
     c \in LocalContents, a \in {Arr(<<>>), Arr(<<mAsst>>)}}
  \cup
  {Obj(<<F("composer", Obj(<<F("id", W("c"))>>)),
         F("conversations", Arr(<<Obj(<<F("messages", a1)>>), c2>>))>>) :
     a1 \in SmallArrays,
     c2 \in {Obj(<<F("messages", Arr(<<mText>>))>>), Obj(<<>>), Null}}
  \cup
  {Obj(<<F("localContent", Str(<<"a">>)), F("bubbles", Arr(<<mUser>>))>>)}

PlainContexts ==
  {Undef, Null, Num(0), Num(5), Str(<<"a">>), EmptyStr, Bool(TRUE), Obj(<<>>), Arr(<<>>)}

\* nesting: "k" an undotted key, "d" a key with one dot, "a" an array
Wrap(kind, v) ==
  CASE kind = "k" -> Obj(<<F("foo", v)>>)
    [] kind = "d" -> Obj(<< << <<"a", "b">>, v >> >>)
    [] kind = "a" -> Arr(<<v>>)

RECURSIVE Nest(_, _)
Nest(links, leaf) ==
  IF links = <<>> THEN leaf ELSE Wrap(Head(links), Nest(Tail(links), leaf))

Chains ==
  UNION {{[i \in 1..n |-> "k"], [i \in 1..n |-> "a"], [i \in 1..n |-> "d"],
          [i \in 1..n |-> IF i % 2 = 1 THEN "k" ELSE "a"]} : n \in 0..MaxChain}

Leaves ==
  {Arr(<<mUser, mAsst>>), Arr(<<mUser>>), Arr(<<mUser, mBlank>>), Arr(<<mSender, mIsUser>>),
   Arr(<<mNoRole, mUser>>), Arr(<<mNested, mText>>),
   Obj(<<F("x", Arr(<<mUser>>)), F("y", Arr(<<mText, mAsst>>)), F("z", Arr(<<mUser, mAsst>>))>>),
   Obj(<<F("self", Up(1)), F("msgs", Arr(<<mUser, mAsst>>))>>)}

NestedContexts ==
  {Nest(c, l) : c \in Chains, l \in Leaves}
  \cup {Nest(c, Up(1)) : c \in {d \in Chains : Len(d) >= 1}}
  \cup {Nest(c, Up(2)) : c \in {d \in Chains : Len(d) >= 2}}

Contexts ==
  ShapeContexts \cup PairContexts \cup CursorContexts \cup LocalContexts
    \cup PlainContexts \cup NestedContexts

(***************************************************************************)
(* Inputs of the database path: the workspace directories, the workspace   *)
(* store of the chosen workspace and the global store.                     *)
(***************************************************************************)
\* most workspace directories under the storage root
MaxDirs == 2

Dir(id, hasDb, mtime) == [id |-> id, hasDb |-> hasDb, mtime |-> mtime]

DirPool == {Dir("ws1", TRUE, 1), Dir("ws2", TRUE, 2), Dir("ws0", FALSE, 0),
            Dir("ws9", FALSE, 0)}

DirListings ==
  {ds \in SeqsUpTo(DirPool, MaxDirs) :
     \A i, j \in 1..Len(ds) : i # j => ds[i].id # ds[j].id}

\* arguments of determineRole: every combination of the four signals
Field(name, vs) == {<<>>} \cup {<<F(name, v)>> : v \in vs}

RoleRecords ==
  {Obj(r \o u \o t \o s) :
     r \in Field("role", {W("user"), W("assistant"), W("system"), W("function"), W("bot")}),
     u \in Field("isUser", {Bool(TRUE), Bool(FALSE)}),
     t \in Field("type", {W("human"), W("ai"), Num(1), Num(2)}),
     s \in Field("sender", {W("human"), W("bot"), Num(1), Num(2)})}

RoleArguments == RoleRecords \cup {Null, Undef, Num(5), W("a"), Bool(TRUE), Arr(<<>>)}

\* message records for the content coercion: every pairing of a content
\* and a text field
CoerceArguments ==
  {Obj(c \o t) :
     c \in Field("content",
                 {EmptyStr, Str(<<"a">>), Str(<<" ">>), Num(5), Null, Arr(<<>>),
                  Obj(<<F("text", Str(<<"b">>))>>), Obj(<<F("text", EmptyStr)>>),
                  Arr(<<Str(<<"a">>), Obj(<<F("text", Str(<<"b">>))>>), Num(5)>>)}),
     t \in Field("text", {EmptyStr, Str(<<"c">>), Num(5)})}

\* contents around the length cap: n characters, "x" up to the cap and "y"
\* beyond it
LongText(n) ==
  Runs(IF n = 0 THEN <<>>
       ELSE IF n <= MAX_LENGTH THEN <<[c |-> "x", n |-> n]>>
       ELSE <<[c |-> "x", n |-> MAX_LENGTH], [c |-> "y", n |-> n - MAX_LENGTH]>>)

TruncateLengths ==
  {0, 1, MAX_LENGTH - 1, MAX_LENGTH, MAX_LENGTH + 1,
   MAX_LENGTH + Len(TruncationMarker), MAX_LENGTH + Len(TruncationMarker) + 1}

TruncateMessages ==
  {Msg(W("user"), LongText(n)) : n \in TruncateLengths}
    \cup {Msg(W("assistant"), Concat(LongText(MAX_LENGTH), TruncationMarker)),
          MsgT(W("assistant"), LongText(MAX_LENGTH + 1), 7)}

TruncateLists == SeqsUpTo(TruncateMessages, MaxArr)

\* records for processChatData: one or two tabs, one or two chats and a
\* messages array, each carrying a message that names where it sits
Tagged(tag) == Obj(<<F("role", W("user")), F("content", W(tag))>>)

\* a tab or a chat: its array with one message, its array empty, no array
Holders(key, tag) ==
  {Obj(<<F(key, Arr(<<Tagged(tag)>>))>>), Obj(<<F(key, Arr(<<>>))>>), Obj(<<>>)}

TabLists ==
  {<<t1>> : t1 \in Holders("conversation", "tab1")}
    \cup {<<t1, t2>> : t1 \in Holders("conversation", "tab1"),
                       t2 \in Holders("conversation", "tab2")}

ChatMaps ==
  {<<F("chat1", c1)>> : c1 \in Holders("messages", "chat1")}
    \cup {<<F("chat1", c1), F("chat2", c2)>> : c1 \in Holders("messages", "chat1"),
                                              c2 \in Holders("messages", "chat2")}

ChatRecords ==
  {Obj(t \o c \o m) :
     t \in {<<>>} \cup {<<F("tabs", Arr(ts))>> : ts \in TabLists},
     c \in {<<>>} \cup {<<F("chats", Obj(cs))>> : cs \in ChatMaps},
     m \in Field("messages", {Arr(<<Tagged("top")>>)})}

\* composer indexes: the i-th entry has the id "c<i>" and any of the
\* timestamps, or none
MaxComposers == 3

ComposerIds == <<"c1", "c2", "c3", "c4">>

ComposerEntry(i, ts) == Obj(<<F("composerId", W(ComposerIds[i]))>> \o ts)

ComposerIndexes ==
  {Obj(<<F("allComposers", Arr(es))>>) :
     es \in UNION {{[i \in 1..n |-> ComposerEntry(i, f[i])] :
                      f \in [1..n -> Field("lastUpdatedAt", {Num(0), Num(1), Num(2)})]} :
                   n \in 2..MaxComposers}}

\* the notice handleShareChat adds to an empty conversation
ShareNotice == Msg(W("system"), W("notice"))

\* what extractConversation(context) hands to handleShareChat: the list of
\* the synchronous extractConversation (share.ts:76, extractor.ts:1765), its
\* throw, or the pending Promise of the async one (extractor.ts:1214), which
\* share.ts:470 does not await
ExtractedPool == {Msg(W("user"), W("a")), Msg(W("assistant"), W("b"))}

Extraction(kind, msgs) == [kind |-> kind, msgs |-> msgs]

ShareExtractions ==
  {Extraction(k, m) : k \in {"list", "promise"}, m \in SeqsUpTo(ExtractedPool, MaxArr)}
    \cup {Extraction("throw", <<>>)}

\* the outcome of axios.post: a rejection, or a response with this data
Response(ok, data) == [ok |-> ok, data |-> data]

ShareResponses ==
  {Response(FALSE, Undef)} \cup
  {Response(TRUE, d) :
     d \in {EmptyStr, Null, Obj(<<>>), Obj(<<F("shareId", EmptyStr)>>),
            Obj(<<F("shareId", W("s1"))>>),
            Obj(<<F("shareId", W("s1")), F("shareUrl", W("u1"))>>),
            Obj(<<F("shareUrl", W("u1"))>>)}}

Fs(rootOk, dirs, globalFile) == [rootOk |-> rootOk, dirs |-> dirs, globalFile |-> globalFile]

WsStore(tables, item, kv) == [tables |-> tables, item |-> item, kv |-> kv]

GlobalStore(tables, item, kv) == [tables |-> tables, item |-> item, kv |-> kv]

mType1 == Obj(<<F("type", Num(1)), F("text", Str(<<"a">>)), F("timestamp", Num(7))>>)

StoreMsgPool == WellFormedPool \cup {mNested, mEmptyThenText, mType1, Null}

StoreArrays == {Arr(s) : s \in SeqsUpTo(StoreMsgPool, MaxArr)}

otherTab == Obj(<<F("conversation", Arr(<<mAsst, mAsst>>))>>)

TabsDoc(a) == Obj(<<F("tabs", Arr(<<otherTab, Obj(<<F("conversation", a)>>)>>))>>)

ChatsDoc(a) ==
  Obj(<<F("chats", Obj(<<F("c1", Obj(<<F("messages", a)>>)),
                         F("c2", Obj(<<F("messages", Arr(<<mAsst, mAsst>>))>>))>>))>>)

MessagesDoc(a) == Obj(<<F("messages", a)>>)

ConversationDoc(a) == Obj(<<F("conversation", a)>>)

FixtureDocs ==
  UNION {{TabsDoc(a), ChatsDoc(a), MessagesDoc(a), ConversationDoc(a)} : a \in StoreArrays}

\* a store whose first known key holds one fixture
FixtureStores ==
  {WsStore({"ItemTable"}, <<Row(possibleKeys[1], Json(d))>>, <<>>) : d \in FixtureDocs}

dChat == MessagesDoc(Arr(<<mUser, mAsst>>))
dEmpty == TabsDoc(Arr(<<mBlank>>))
dConv == ConversationDoc(Arr(<<mText>>))

dIndex ==
  Obj(<<F("allComposers",
          Arr(<<Obj(<<F("composerId", W("c1")), F("lastUpdatedAt", Num(1))>>),
                Obj(<<F("composerId", W("c2")), F("lastUpdatedAt", Num(2)),
                      F("text", Str(<<" ">>))>>),
                Null>>))>>)
dIndexArray == Arr(<<Obj(<<F("composerId", W("c1"))>>), Obj(<<F("id", W("c2"))>>)>>)
dIndexNoId == Obj(<<F("composers", Arr(<<Obj(<<F("lastUpdatedAt", Num(3))>>)>>))>>)

NoTable == <<Row("", NoValue)>>

ItemOptions ==
  {NoTable,
   <<>>,
   <<Row(possibleKeys[1], Json(dEmpty)), Row("chat.data", Json(dChat))>>,
   <<Row("chat.data", Json(dChat))>>,
   <<Row("chat.sessions", BadJson), Row("conversation.list", Json(dConv))>>,
   <<Row("composer.composerData", Json(dIndex))>>,
   <<Row("history.entries", Json(dEmpty)), Row("composer.recent", Json(dIndexArray))>>,
   <<Row("cursor.composerData", BadJson)>>,
   <<Row("aichat.history", NoValue), Row("composer.data", Json(dIndexNoId))>>}

KvOptions ==
  {NoTable,
   <<>>,
   <<Row("chat.data", Json(dChat))>>,
   <<Row("chat.sessions", BadJson), Row("conversation.list", Json(dEmpty)),
     Row("chat.data", Json(dConv))>>,
   <<Row("chat.data", Json(dChat)), Row("conversation.list", Json(dConv))>>}

StageStores ==
  {WsStore((IF item = NoTable THEN {} ELSE {"ItemTable"})
             \cup (IF kv = NoTable THEN {} ELSE {"cursorDiskKV"}),
           IF item = NoTable THEN <<>> ELSE item,
           IF kv = NoTable THEN <<>> ELSE kv) :
     item \in ItemOptions, kv \in KvOptions}

gKey(id) == ComposerKey(W(id))

GlobalStores ==
  {GlobalStore({}, <<>>, <<>>),
   GlobalStore({"cursorDiskKV"}, <<>>,
               <<Row(gKey("c2"), Json(ConversationDoc(Arr(<<mUser, mAsst>>))))>>),
   GlobalStore({"ItemTable"}, <<Row(gKey("c2"), Json(Obj(<<F("text", Str(<<" ">>))>>)))>>, <<>>),
   GlobalStore({"cursorDiskKV", "ItemTable"},
               <<Row(gKey("c2"), Json(MessagesDoc(Arr(<<mAsst>>))))>>,
               <<Row(gKey("c1"), Json(MessagesDoc(Arr(<<mUser>>))))>>),
   GlobalStore({"cursorDiskKV"}, <<>>, <<Row(gKey("c2"), BadJson)>>),
   GlobalStore({"cursorDiskKV"}, <<>>, <<Row(gKey("c2"), Json(Obj(<<F("foo", Num(1))>>)))>>)}

fsNormal == Fs(TRUE, <<Dir("ws1", TRUE, 1)>>, TRUE)

defaultStore == WsStore({"ItemTable"}, <<Row("chat.data", Json(dChat))>>, <<>>)

defaultGlobal == GlobalStore({}, <<>>, <<>>)

(***************************************************************************)
(* State.                                                                  *)
(***************************************************************************)
VARIABLES
  entry,      \* "mem": extractConversation(context); "db": the database path
  pc,         \* position of the running extraction
  messages,   \* the local variable messages of the running function
  result,     \* the returned list, Null until the entry point returns
  raised,     \* TRUE when the entry point ended by raising
  trace,      \* the parsers, store operations and stage results so far
  debug,      \* config.debug
  context,    \* the argument of the in-memory extractConversation
  stack,      \* the active calls of findMessagesRecursively, innermost last
  ret,        \* the value a findMessagesRecursively call has just returned
  found,      \* the array cursor findMessagesRecursively took its result from
  fsys,       \* the storage root, its directories, the global store file
  wsStore,    \* the store of the chosen workspace
  globalStore,
  workspaceId,
  rwd,        \* the locals of readWorkspaceData
  fcd,        \* the locals of findComposerData
  handles,    \* per store handle: its state and whether close() was called
  held,       \* the messages in hand when a close() last failed
  thrown      \* the error the last throw carried, "" when nothing was thrown

memVars == <<debug, context, stack, ret, found>>

dbVars == <<fsys, wsStore, globalStore, workspaceId, rwd, fcd, handles, held, thrown>>

vars == <<entry, pc, messages, result, raised, trace, debug, context, stack, ret, found,
          fsys, wsStore, globalStore, workspaceId, rwd, fcd, handles, held, thrown>>

NoRet == [set |-> FALSE, msgs |-> <<>>]
Returned(msgs) == [set |-> TRUE, msgs |-> msgs]

NoCursor == Root(Undef)

RwdInit == [db |-> "null", tableNames |-> {}, idx |-> 0, rows |-> <<>>, chatResult |-> NoRow,
            returned |-> FALSE, out |-> <<>>]

FcdInit == [db |-> "null", globalDb |-> "null", tableNames |-> {}, idx |-> 0,
            composerResult |-> NoRow, recentComposer |-> NoCursor, tableName |-> "",
            composerContent |-> NoRow, returned |-> FALSE, out |-> <<>>]

Handle(state, closeCalled) == [state |-> state, closeCalled |-> closeCalled]

HandleNames == {"rwd", "fcd", "global"}

HandlesInit == [h \in HandleNames |-> Handle("none", FALSE)]

InitMem ==
  /\ entry = "mem"
  /\ debug \in BOOLEAN
  /\ context \in Contexts
  /\ pc = "begin"
  /\ fsys = fsNormal /\ wsStore = defaultStore /\ globalStore = defaultGlobal

InitDb ==
  /\ entry = "db"
  /\ debug = FALSE
  /\ context = Undef
  /\ pc = "findWorkspace"
  /\ \/ /\ fsys \in {Fs(r, ds, TRUE) : r \in BOOLEAN, ds \in DirListings}
        /\ wsStore = defaultStore
        /\ globalStore = defaultGlobal
     \/ /\ fsys = fsNormal
        /\ wsStore \in FixtureStores
        /\ globalStore = defaultGlobal
     \/ /\ fsys \in {fsNormal, Fs(TRUE, <<Dir("ws1", TRUE, 1)>>, FALSE)}
        /\ wsStore \in StageStores
        /\ globalStore \in GlobalStores

\* one call of a helper function on an argument of its own
InitCall ==
  /\ \/ /\ entry \in {"determineRoleDb", "determineRole", "determineRoleShare"}
        /\ context \in RoleArguments
     \/ /\ entry = "coerceContent"
        /\ context \in CoerceArguments
     \/ /\ entry = "selectComposer"
        /\ context \in ComposerIndexes
     \/ /\ entry = "processChatData"
        /\ context \in ChatRecords
  /\ debug = FALSE
  /\ pc = "call"
  /\ fsys = fsNormal /\ wsStore = defaultStore /\ globalStore = defaultGlobal

\* handleShareChat(title, context)
InitShare ==
  /\ entry = "handleShareChat"
  /\ context = Undef
  /\ debug \in BOOLEAN
  /\ pc = "call"
  /\ fsys = fsNormal /\ wsStore = defaultStore /\ globalStore = defaultGlobal

\* truncateLongMessages(messages) on a list of its own
InitTruncate ==
  /\ entry = "truncateLongMessages"
  /\ messages \in TruncateLists
  /\ context = Undef
  /\ debug = FALSE
  /\ pc = "call"
  /\ fsys = fsNormal /\ wsStore = defaultStore /\ globalStore = defaultGlobal

Init ==
  /\ \/ (InitMem \/ InitDb \/ InitCall \/ InitShare) /\ messages = <<>>
     \/ InitTruncate
  /\ result = Null
  /\ raised = FALSE
  /\ trace = <<>>
  /\ stack = <<>>
  /\ ret = NoRet
  /\ found = NoCursor
  /\ workspaceId = ""
  /\ rwd = RwdInit
  /\ fcd = FcdInit
  /\ handles = HandlesInit
  /\ held = <<>>
  /\ thrown = ""

Event(p, out) == [p |-> p, out |-> out]

(***************************************************************************)
(* extractConversation(context), in-memory snapshot.                       *)
(***************************************************************************)
\* saveDebugContext(context) only logs; then the test of an absent context
Begin ==
  /\ entry = "mem" /\ pc = "begin"
  /\ IF ~Truthy(context)
       THEN /\ pc' = "done"
            /\ result' = <<>>
       ELSE /\ pc' = "cursorSpecific"
            /\ UNCHANGED result
  /\ UNCHANGED <<entry, messages, raised, trace, memVars, dbVars>>

\* messages = parser(context); if (messages.length > 0) return truncated
TryParser(name, out, next) ==
  /\ entry = "mem" /\ pc = name
  /\ messages' = out
  /\ trace' = Append(trace, Event(name, out))
  /\ IF Len(out) > 0
       THEN /\ pc' = "done"
            /\ result' = truncateLongMessages(out)
       ELSE /\ pc' = next
            /\ UNCHANGED result
  /\ UNCHANGED <<entry, raised, memVars, dbVars>>

TryCursorSpecific ==
  TryParser("cursorSpecific", extractFromCursorSpecific(Root(context), debug), "chatHistory")

\* TryChatHistory with the conversation parser left out of the sequence
TryChatHistoryThenBubbles ==
  TryParser("chatHistory", extractFromChatHistory(Root(context), debug), "bubbles")

TryChatHistory ==
  TryParser("chatHistory", extractFromChatHistory(Root(context), debug), "conversation")

TryConversation ==
  TryParser("conversation", extractFromConversation(Root(context), debug), "bubbles")

TryBubbles ==
  TryParser("bubbles", extractFromBubbles(Root(context), debug), "messagesOrHistory")

TryMessagesOrHistory ==
  TryParser("messagesOrHistory", extractFromMessagesOrHistory(Root(context), debug),
            "arrayContext")

TryArrayContext ==
  TryParser("arrayContext", extractFromArrayContext(Root(context), debug), "recursiveCall")

(***************************************************************************)
(* findMessagesRecursively(obj, path).  A frame holds the cursor of obj,   *)
(* segs = path.split('.').length, and the position i of its loop.          *)
(***************************************************************************)
Frame(cur, segs) == [cur |-> cur, segs |-> segs, i |-> 0, ph |-> "enter"]

Top == stack[Len(stack)]
Pop == SubSeq(stack, 1, Len(stack) - 1)

\* messages = findMessagesRecursively(context), path = 'root'
RecCall ==
  /\ entry = "mem" /\ pc = "recursiveCall"
  /\ pc' = "recursive"
  /\ stack' = << Frame(Root(context), 1) >>
  /\ UNCHANGED <<entry, messages, result, raised, trace, debug, context, ret, found, dbVars>>

\* the guards and the message-array test at the head of a call
RecEnter ==
  /\ pc = "recursive" /\ stack # <<>> /\ ~ret.set /\ Top.ph = "enter"
  /\ LET obj == Top.cur.v
         asMessages == ArrayAsMessages(Top.cur)
     IN  IF ~Truthy(obj) \/ obj.t \notin {"obj", "arr"} \/ TooDeep(Top.segs)
           THEN /\ stack' = Pop
                /\ ret' = Returned(<<>>)
                /\ UNCHANGED found
         ELSE IF IsArray(obj) /\ Len(obj.e) > 0 /\ EnoughMessages(asMessages)
           THEN /\ stack' = Pop
                /\ ret' = Returned(asMessages)
                /\ found' = Top.cur
         ELSE /\ stack' = [stack EXCEPT ![Len(stack)] = [@ EXCEPT !.ph = "loop", !.i = 1]]
              /\ UNCHANGED <<ret, found>>
  /\ UNCHANGED <<entry, pc, messages, result, raised, trace, debug, context, dbVars>>

\* one iteration of the loop over the elements or the own properties:
\* a nested call when the child is an object, else the next child
RecLoop ==
  /\ pc = "recursive" /\ stack # <<>> /\ ~ret.set /\ Top.ph = "loop"
  /\ LET children == Children(Top.cur)
     IN  IF Top.i > Len(children)
           THEN /\ stack' = Pop
                /\ ret' = Returned(<<>>)
                /\ UNCHANGED <<pc, raised>>
         ELSE IF Truthy(children[Top.i].cur.v) /\ children[Top.i].cur.v.t \in {"obj", "arr"}
           THEN IF Len(stack) >= StackLimit
                  THEN \* RangeError: the call stack is exhausted, no handler
                       /\ raised' = TRUE
                       /\ pc' = "done"
                       /\ stack' = <<>>
                       /\ UNCHANGED ret
                  ELSE /\ stack' = Append(stack,
                                     Frame(children[Top.i].cur,
                                           Top.segs + children[Top.i].add))
                       /\ UNCHANGED <<pc, raised, ret>>
         ELSE /\ stack' = [stack EXCEPT ![Len(stack)] = [@ EXCEPT !.i = @ + 1]]
              /\ UNCHANGED <<pc, raised, ret>>
  /\ UNCHANGED <<entry, messages, result, trace, debug, context, found, dbVars>>

\* back in the caller's loop: if (result.length > 0) return result
RecResume ==
  /\ pc = "recursive" /\ stack # <<>> /\ ret.set
  /\ IF Len(ret.msgs) > 0
       THEN /\ stack' = Pop
            /\ UNCHANGED ret
       ELSE /\ stack' = [stack EXCEPT ![Len(stack)] = [@ EXCEPT !.i = @ + 1]]
            /\ ret' = NoRet
  /\ UNCHANGED <<entry, pc, messages, result, raised, trace, debug, context, found, dbVars>>

\* the outermost call returned: return truncateLongMessages(messages)
RecFinish ==
  /\ pc = "recursive" /\ stack = <<>> /\ ret.set
  /\ messages' = ret.msgs
  /\ trace' = Append(trace, Event("recursive", ret.msgs))
  /\ result' = truncateLongMessages(ret.msgs)
  /\ pc' = "done"
  /\ UNCHANGED <<entry, raised, memVars, dbVars>>

NextMem ==
  \/ Begin
  \/ TryCursorSpecific
  \/ TryChatHistory
  \/ TryConversation
  \/ TryBubbles
  \/ TryMessagesOrHistory
  \/ TryArrayContext
  \/ RecCall
  \/ RecEnter
  \/ RecLoop
  \/ RecResume
  \/ RecFinish

(***************************************************************************)
(* The database path.  Every store operation either succeeds or throws.    *)
(***************************************************************************)
Opened(h) == [handles EXCEPT ![h] = Handle("open", FALSE)]

\* close() was called on h; the handle stays open when the call fails
CloseCalled(hs, h, ok) ==
  [hs EXCEPT ![h] = Handle(IF ok THEN "closed" ELSE @.state, TRUE)]

\* the listing without the filter on dbPath
UnfilteredDirs(dirs) == dirs

\* findRecentWorkspaceId: the directory whose state.vscdb is most recent
ValidDirs(dirs) == SelectSeq(dirs, LAMBDA d : d.hasDb)

RecentWorkspace(dirs) ==
  LET valid == ValidDirs(dirs)
      sorted == SortDesc([i \in 1..Len(valid) |-> [k |-> valid[i].mtime, x |-> valid[i]]])
  IN  sorted[1].x.id

WorkspaceFound == fsys.rootOk /\ ValidDirs(fsys.dirs) # <<>>

\* findRecentWorkspaceId without its test of an empty listing
WorkspaceErrorNoEmptyTest(fs) ==
  IF ~fs.rootOk THEN "WorkspacePathNotFound"
  ELSE IF ValidDirs(fs.dirs) = <<>> THEN "NoDirectoryWithDatabase"
  ELSE ""

\* the error findRecentWorkspaceId throws, "" when it returns an id:
\* getCursorWorkspacePath throws when the storage root does not exist, then
\* the listing without directories, then the listing without a state.vscdb
WorkspaceError(fs) ==
  IF ~fs.rootOk THEN "WorkspacePathNotFound"
  ELSE IF fs.dirs = <<>> THEN "NoWorkspaceDirectories"
  ELSE IF ValidDirs(fs.dirs) = <<>> THEN "NoDirectoryWithDatabase"
  ELSE ""

\* fs.existsSync(dbPath)
DbFileExists == \E i \in 1..Len(fsys.dirs) : fsys.dirs[i].id = workspaceId /\ fsys.dirs[i].hasDb

\* extractConversation() without its catch: the error of
\* findRecentWorkspaceId rejects the promise
FindWorkspaceUncaught ==
  /\ entry = "db" /\ pc = "findWorkspace"
  /\ IF WorkspaceFound
       THEN /\ workspaceId' = RecentWorkspace(fsys.dirs)
            /\ pc' = "rwdOpen"
            /\ UNCHANGED raised
       ELSE /\ raised' = TRUE
            /\ pc' = "done"
            /\ UNCHANGED workspaceId
  /\ thrown' = WorkspaceError(fsys)
  /\ UNCHANGED <<entry, messages, result, trace, memVars, fsys, wsStore, globalStore,
                 rwd, fcd, handles, held>>

\* extractConversation(): workspaceId = await findRecentWorkspaceId();
\* a throw is caught by extractConversation, which returns []
FindWorkspace ==
  /\ entry = "db" /\ pc = "findWorkspace"
  /\ IF WorkspaceFound
       THEN /\ workspaceId' = RecentWorkspace(fsys.dirs)
            /\ pc' = "rwdOpen"
            /\ UNCHANGED result
       ELSE /\ result' = <<>>
            /\ pc' = "done"
            /\ UNCHANGED workspaceId
  /\ thrown' = WorkspaceError(fsys)
  /\ UNCHANGED <<entry, messages, raised, trace, memVars, fsys, wsStore, globalStore,
                 rwd, fcd, handles, held>>

dbFrame == <<entry, result, raised, memVars, fsys, wsStore, globalStore, workspaceId,
             thrown>>

\* readWorkspaceData: path, existsSync, open
RwdOpen ==
  /\ pc = "rwdOpen"
  /\ \E ok \in BOOLEAN :
       IF fsys.rootOk /\ DbFileExists /\ ok
         THEN /\ rwd' = [rwd EXCEPT !.db = "ref"]
              /\ handles' = Opened("rwd")
              /\ trace' = Append(trace, Event("rwd.open", <<>>))
              /\ pc' = "rwdPragma"
         ELSE /\ pc' = "rwdCatch"
              /\ trace' = Append(trace, Event("rwd.open", <<>>))
              /\ UNCHANGED <<rwd, handles>>
  /\ UNCHANGED <<dbFrame, messages, fcd, held>>

\* the four PRAGMA exec calls
RwdPragma ==
  /\ pc = "rwdPragma"
  /\ \E ok \in BOOLEAN : pc' = IF ok THEN "rwdTables" ELSE "rwdCatch"
  /\ trace' = Append(trace, Event("rwd.exec", <<>>))
  /\ UNCHANGED <<dbFrame, messages, rwd, fcd, handles, held>>

\* tables = await db.all("SELECT name FROM sqlite_master ...")
RwdTables ==
  /\ pc = "rwdTables"
  /\ trace' = Append(trace, Event("rwd.tables", <<>>))
  /\ \E ok \in BOOLEAN :
       IF ok
         THEN /\ rwd' = [rwd EXCEPT !.tableNames = wsStore.tables, !.idx = 1]
              /\ pc' = IF "ItemTable" \in wsStore.tables THEN "rwdKeys" ELSE "rwdProcess"
         ELSE /\ pc' = "rwdCatch"
              /\ UNCHANGED rwd
  /\ UNCHANGED <<dbFrame, messages, fcd, handles, held>>

\* the loop over possibleKeys without its break: the last hit is kept
RwdGetNoBreak ==
  /\ pc = "rwdKeys"
  /\ trace' = Append(trace, Event("rwd.get", <<>>))
  /\ \E ok \in BOOLEAN :
       LET row == Lookup(wsStore.item, possibleKeys[rwd.idx])
           kept == IF HasValue(row) THEN row ELSE rwd.chatResult
       IN  IF ~ok
             THEN /\ pc' = "rwdCatch"
                  /\ UNCHANGED rwd
           ELSE IF rwd.idx < Len(possibleKeys)
             THEN /\ rwd' = [rwd EXCEPT !.idx = @ + 1, !.chatResult = kept]
                  /\ UNCHANGED pc
           ELSE /\ rwd' = [rwd EXCEPT !.chatResult = kept]
                /\ pc' = IF HasValue(kept) THEN "rwdProcess" ELSE "rwdLike"
  /\ UNCHANGED <<dbFrame, messages, fcd, handles, held>>

\* one iteration of for (const key of possibleKeys): db.get
RwdGet ==
  /\ pc = "rwdKeys"
  /\ trace' = Append(trace, Event("rwd.get", <<>>))
  /\ \E ok \in BOOLEAN :
       LET row == Lookup(wsStore.item, possibleKeys[rwd.idx])
       IN  IF ~ok
             THEN /\ pc' = "rwdCatch"
                  /\ UNCHANGED rwd
           ELSE IF HasValue(row)
             THEN /\ rwd' = [rwd EXCEPT !.chatResult = row]
                  /\ pc' = "rwdProcess"
           ELSE IF rwd.idx < Len(possibleKeys)
             THEN /\ rwd' = [rwd EXCEPT !.idx = @ + 1]
                  /\ UNCHANGED pc
           ELSE /\ pc' = "rwdLike"
                /\ UNCHANGED rwd
  /\ UNCHANGED <<dbFrame, messages, fcd, handles, held>>

\* if (!chatResult): the LIKE scan and the parse of each of its rows
RwdLike ==
  /\ pc = "rwdLike"
  /\ trace' = Append(trace, Event("rwd.like", <<>>))
  /\ \E ok \in BOOLEAN :
       IF ok
         THEN LET likeResults == Scan(wsStore.item, ChatScanTerms)
                  at == FirstChatRow(likeResults, 1)
              IN  /\ rwd' = [rwd EXCEPT !.chatResult =
                                          IF at = 0 THEN NoRow ELSE likeResults[at]]
                  /\ pc' = "rwdProcess"
         ELSE /\ pc' = "rwdCatch"
              /\ UNCHANGED rwd
  /\ UNCHANGED <<dbFrame, messages, fcd, handles, held>>

\* RwdProcess going on to the later known keys when the row found yields
\* no message
RwdProcessLaterKeys ==
  /\ pc = "rwdProcess"
  /\ LET outOf(row) == IF HasValue(row) THEN processChatText(row.value) ELSE <<>>
         yielding == {k \in 1..Len(possibleKeys) :
                        outOf(Lookup(wsStore.item, possibleKeys[k])) # <<>>}
         out == IF outOf(rwd.chatResult) # <<>> \/ yielding = {}
                  THEN outOf(rwd.chatResult)
                  ELSE outOf(Lookup(wsStore.item,
                                    possibleKeys[CHOOSE k \in yielding :
                                                   \A j \in yielding : k <= j]))
     IN  IF Len(out) > 0
           THEN /\ messages' = out
                /\ trace' = Append(trace, Event("yield1", out))
                /\ pc' = "rwdCloseFound"
           ELSE /\ pc' = "rwdKv"
                /\ UNCHANGED <<messages, trace>>
  /\ UNCHANGED <<dbFrame, rwd, fcd, handles, held>>

\* if (chatResult && chatResult.value) messages = processChatData(...)
RwdProcess ==
  /\ pc = "rwdProcess"
  /\ LET out == IF HasValue(rwd.chatResult) THEN processChatText(rwd.chatResult.value)
                ELSE <<>>
     IN  IF Len(out) > 0
           THEN /\ messages' = out
                /\ trace' = Append(trace, Event("yield1", out))
                /\ pc' = "rwdCloseFound"
           ELSE /\ pc' = "rwdKv"
                /\ UNCHANGED <<messages, trace>>
  /\ UNCHANGED <<dbFrame, rwd, fcd, handles, held>>

\* await db.close(); return messages;   (after the ItemTable stage)
RwdCloseFound ==
  /\ pc = "rwdCloseFound"
  /\ trace' = Append(trace, Event("rwd.close", <<>>))
  /\ \E ok \in BOOLEAN :
       /\ handles' = CloseCalled(handles, "rwd", ok)
       /\ IF ok
            THEN /\ rwd' = [rwd EXCEPT !.returned = TRUE, !.out = messages]
                 /\ pc' = "ecResult"
                 /\ UNCHANGED held
            ELSE /\ held' = messages
                 /\ pc' = "rwdCatch"
                 /\ UNCHANGED rwd
  /\ UNCHANGED <<dbFrame, messages, fcd>>

\* if (tableNames.includes('cursorDiskKV')) kvResults = await db.all(...)
RwdKvScan ==
  /\ pc = "rwdKv"
  /\ IF "cursorDiskKV" \in rwd.tableNames
       THEN /\ trace' = Append(trace, Event("rwd.kvscan", <<>>))
            /\ \E ok \in BOOLEAN :
                 IF ok
                   THEN /\ rwd' = [rwd EXCEPT !.rows = Scan(wsStore.kv, KvScanTerms),
                                              !.idx = 1]
                        /\ pc' = "rwdKvLoop"
                   ELSE /\ pc' = "rwdCatch"
                        /\ UNCHANGED rwd
       ELSE /\ pc' = "rwdClose"
            /\ UNCHANGED <<rwd, trace>>
  /\ UNCHANGED <<dbFrame, messages, fcd, handles, held>>

\* the position, from from on, of the first scanned row that yields messages
FirstYieldingRow(rows, from) ==
  LET yields(i) == HasChatShape(rows[i].value)
                     /\ Len(processChatData(Root(rows[i].value.v))) > 0
  IN  IF \E i \in from..Len(rows) : yields(i)
        THEN CHOOSE i \in from..Len(rows) : yields(i) /\ \A j \in from..(i - 1) : ~yields(j)
        ELSE 0

\* for (const item of kvResults): parse, test the shape, processChatData
RwdKvLoop ==
  /\ pc = "rwdKvLoop"
  /\ LET at == FirstYieldingRow(rwd.rows, rwd.idx)
     IN  IF at = 0
           THEN /\ pc' = "rwdClose"
                /\ UNCHANGED <<messages, rwd, trace>>
           ELSE /\ messages' = processChatData(Root(rwd.rows[at].value.v))
                /\ trace' = Append(trace, Event("yield2", messages'))
                /\ rwd' = [rwd EXCEPT !.idx = at]
                /\ pc' = "rwdKvClose"
  /\ UNCHANGED <<dbFrame, fcd, handles, held>>

\* await db.close(); return messages;   inside the try of the loop body:
\* a throw of close() is swallowed and the loop goes on
RwdKvClose ==
  /\ pc = "rwdKvClose"
  /\ trace' = Append(trace, Event("rwd.close", <<>>))
  /\ \E ok \in BOOLEAN :
       /\ handles' = CloseCalled(handles, "rwd", ok)
       /\ IF ok
            THEN /\ rwd' = [rwd EXCEPT !.returned = TRUE, !.out = messages]
                 /\ pc' = "ecResult"
                 /\ UNCHANGED held
            ELSE /\ held' = messages
                 /\ rwd' = [rwd EXCEPT !.idx = @ + 1]
                 /\ pc' = "rwdKvLoop"
  /\ UNCHANGED <<dbFrame, messages, fcd>>

\* the composer fallback entered with the workspace handle still open
RwdCloseSkipped ==
  /\ pc = "rwdClose"
  /\ rwd' = [rwd EXCEPT !.db = "null"]
  /\ pc' = "fcdOpen"
  /\ UNCHANGED <<dbFrame, messages, trace, fcd, handles, held>>

\* await db.close(); db = null;   then the composer fallback
RwdClose ==
  /\ pc = "rwdClose"
  /\ trace' = Append(trace, Event("rwd.close", <<>>))
  /\ \E ok \in BOOLEAN :
       /\ handles' = CloseCalled(handles, "rwd", ok)
       /\ IF ok
            THEN /\ rwd' = [rwd EXCEPT !.db = "null"]
                 /\ pc' = "fcdOpen"
            ELSE /\ pc' = "rwdCatch"
                 /\ UNCHANGED rwd
  /\ UNCHANGED <<dbFrame, messages, fcd, held>>

\* a catch that closes the handle and goes on to the composer fallback
RwdCatchFallsBack ==
  /\ pc = "rwdCatch"
  /\ IF rwd.db = "ref"
       THEN /\ trace' = trace \o <<Event("rwd.catch", <<>>), Event("rwd.close", <<>>)>>
            /\ handles' = CloseCalled(handles, "rwd", TRUE)
       ELSE /\ trace' = Append(trace, Event("rwd.catch", <<>>))
            /\ UNCHANGED handles
  /\ rwd' = [rwd EXCEPT !.db = "null"]
  /\ pc' = "fcdOpen"
  /\ UNCHANGED <<dbFrame, messages, fcd, held>>

\* catch (err): if (db) try { await db.close() } catch {}; return []
RwdCatch ==
  /\ pc = "rwdCatch"
  /\ IF rwd.db = "ref"
       THEN /\ trace' = trace \o <<Event("rwd.catch", <<>>), Event("rwd.close", <<>>)>>
            /\ \E ok \in BOOLEAN : handles' = CloseCalled(handles, "rwd", ok)
       ELSE /\ trace' = Append(trace, Event("rwd.catch", <<>>))
            /\ UNCHANGED handles
  /\ rwd' = [rwd EXCEPT !.returned = TRUE, !.out = <<>>]
  /\ pc' = "ecResult"
  /\ UNCHANGED <<dbFrame, messages, fcd, held>>

\* composerMessages = await findComposerData(workspaceId); return it or []
RwdAfterComposer ==
  /\ pc = "rwdAfter"
  /\ rwd' = [rwd EXCEPT !.returned = TRUE, !.out = fcd.out]
  /\ pc' = "ecResult"
  /\ UNCHANGED <<dbFrame, messages, trace, fcd, handles, held>>

\* extractConversation(): messages = await readWorkspaceData(workspaceId)
EcResult ==
  /\ pc = "ecResult"
  /\ messages' = rwd.out
  /\ result' = IF Len(rwd.out) > 0 THEN truncateLongMessages(rwd.out) ELSE <<>>
  /\ pc' = "done"
  /\ UNCHANGED <<entry, raised, trace, memVars, dbVars>>

(***************************************************************************)
(* findComposerData(workspaceId).                                          *)
(***************************************************************************)
FcdReturn(out) == [fcd EXCEPT !.returned = TRUE, !.out = out]

\* path, existsSync, open of the workspace store
FcdOpen ==
  /\ pc = "fcdOpen"
  /\ trace' = Append(trace, Event("fcd.open", <<>>))
  /\ \E ok \in BOOLEAN :
       IF fsys.rootOk /\ DbFileExists /\ ok
         THEN /\ fcd' = [fcd EXCEPT !.db = "ref"]
              /\ handles' = Opened("fcd")
              /\ pc' = "fcdPragma"
         ELSE /\ pc' = "fcdCatch"
              /\ UNCHANGED <<fcd, handles>>
  /\ UNCHANGED <<dbFrame, messages, rwd, held>>

FcdPragma ==
  /\ pc = "fcdPragma"
  /\ trace' = Append(trace, Event("fcd.exec", <<>>))
  /\ \E ok \in BOOLEAN : pc' = IF ok THEN "fcdTables" ELSE "fcdCatch"
  /\ UNCHANGED <<dbFrame, messages, rwd, fcd, handles, held>>

FcdTables ==
  /\ pc = "fcdTables"
  /\ trace' = Append(trace, Event("fcd.tables", <<>>))
  /\ \E ok \in BOOLEAN :
       IF ok
         THEN /\ fcd' = [fcd EXCEPT !.tableNames = wsStore.tables, !.idx = 1]
              /\ pc' = IF "ItemTable" \in wsStore.tables THEN "fcdKeys" ELSE "fcdClose"
         ELSE /\ pc' = "fcdCatch"
              /\ UNCHANGED fcd
  /\ UNCHANGED <<dbFrame, messages, rwd, handles, held>>

\* one iteration of for (const key of composerKeys): db.get
FcdGet ==
  /\ pc = "fcdKeys"
  /\ trace' = Append(trace, Event("fcd.get", <<>>))
  /\ \E ok \in BOOLEAN :
       LET row == Lookup(wsStore.item, composerKeys[fcd.idx])
       IN  IF ~ok
             THEN /\ pc' = "fcdCatch"
                  /\ UNCHANGED fcd
           ELSE IF HasValue(row)
             THEN /\ fcd' = [fcd EXCEPT !.composerResult = row]
                  /\ pc' = "fcdClose"
           ELSE IF fcd.idx < Len(composerKeys)
             THEN /\ fcd' = [fcd EXCEPT !.idx = @ + 1]
                  /\ UNCHANGED pc
           ELSE /\ pc' = "fcdLike"
                /\ UNCHANGED fcd
  /\ UNCHANGED <<dbFrame, messages, rwd, handles, held>>

\* if (!composerResult): the LIKE scan and the parse of each of its rows
FcdLike ==
  /\ pc = "fcdLike"
  /\ trace' = Append(trace, Event("fcd.like", <<>>))
  /\ \E ok \in BOOLEAN :
       IF ok
         THEN /\ fcd' = [fcd EXCEPT !.composerResult =
                           FirstComposerRow(Scan(wsStore.item, ComposerScanTerms))]
              /\ pc' = "fcdClose"
         ELSE /\ pc' = "fcdCatch"
              /\ UNCHANGED fcd
  /\ UNCHANGED <<dbFrame, messages, rwd, handles, held>>

\* await db.close(); db = null;
FcdClose ==
  /\ pc = "fcdClose"
  /\ trace' = Append(trace, Event("fcd.close", <<>>))
  /\ \E ok \in BOOLEAN :
       /\ handles' = CloseCalled(handles, "fcd", ok)
       /\ IF ok
            THEN /\ fcd' = [fcd EXCEPT !.db = "null"]
                 /\ pc' = "fcdSelect"
            ELSE /\ pc' = "fcdCatch"
                 /\ UNCHANGED fcd
  /\ UNCHANGED <<dbFrame, messages, rwd, held>>

\* FcdSelect without the existsSync test of the global store file
FcdSelectNoFileTest ==
  /\ pc = "fcdSelect"
  /\ LET recent == IF HasValue(fcd.composerResult)
                     THEN RecentComposer(fcd.composerResult.value)
                     ELSE Root(Null)
     IN  IF Nullish(recent.v)
           THEN /\ fcd' = FcdReturn(<<>>)
                /\ pc' = "rwdAfter"
           ELSE /\ fcd' = [fcd EXCEPT !.recentComposer = recent]
                /\ pc' = "fcdGlobalOpen"
  /\ UNCHANGED <<dbFrame, messages, trace, rwd, handles, held>>

\* parse the index, choose the composer, test the global store file
FcdSelect ==
  /\ pc = "fcdSelect"
  /\ LET recent == IF HasValue(fcd.composerResult)
                     THEN RecentComposer(fcd.composerResult.value)
                     ELSE Root(Null)
     IN  IF Nullish(recent.v) \/ ~fsys.globalFile
           THEN /\ fcd' = FcdReturn(<<>>)
                /\ pc' = "rwdAfter"
           ELSE /\ fcd' = [fcd EXCEPT !.recentComposer = recent]
                /\ pc' = "fcdGlobalOpen"
  /\ UNCHANGED <<dbFrame, messages, trace, rwd, handles, held>>

\* globalDb = await open(...); a throw lands in the catch of the parse
\* block, which only logs: the function returns [] at its end
FcdGlobalOpen ==
  /\ pc = "fcdGlobalOpen"
  /\ trace' = Append(trace, Event("global.open", <<>>))
  /\ \E ok \in BOOLEAN :
       IF ok
         THEN /\ fcd' = [fcd EXCEPT !.globalDb = "ref"]
              /\ handles' = Opened("global")
              /\ pc' = "fcdGlobalPragma"
         ELSE /\ fcd' = FcdReturn(<<>>)
              /\ pc' = "rwdAfter"
              /\ UNCHANGED handles
  /\ UNCHANGED <<dbFrame, messages, rwd, held>>

\* the four PRAGMA exec calls on the global store, same catch
FcdGlobalPragma ==
  /\ pc = "fcdGlobalPragma"
  /\ trace' = Append(trace, Event("global.exec", <<>>))
  /\ \E ok \in BOOLEAN :
       IF ok
         THEN /\ pc' = "fcdGlobalTable"
              /\ UNCHANGED fcd
         ELSE /\ fcd' = FcdReturn(<<>>)
              /\ pc' = "rwdAfter"
  /\ UNCHANGED <<dbFrame, messages, rwd, handles, held>>

\* isCursorTable = await tableExists('cursorDiskKV'), false on a throw
FcdGlobalTable ==
  /\ pc = "fcdGlobalTable"
  /\ trace' = Append(trace, Event("global.table", <<>>))
  /\ \E ok \in BOOLEAN :
       fcd' = [fcd EXCEPT !.tableName =
                 IF ok /\ "cursorDiskKV" \in globalStore.tables
                   THEN "cursorDiskKV" ELSE "ItemTable"]
  /\ pc' = "fcdGlobalGet"
  /\ UNCHANGED <<dbFrame, messages, rwd, handles, held>>

GlobalRows(tableName) == IF tableName = "cursorDiskKV" THEN globalStore.kv ELSE globalStore.item

\* composerContent = await globalDb.get(... WHERE [key] = ?, [key])
FcdGlobalGet ==
  /\ pc = "fcdGlobalGet"
  /\ trace' = Append(trace, Event("global.get", <<>>))
  /\ \E ok \in BOOLEAN :
       IF ok /\ fcd.tableName \in globalStore.tables
         THEN /\ fcd' = [fcd EXCEPT !.composerContent =
                           Lookup(GlobalRows(fcd.tableName),
                                  ComposerKey(ComposerId(fcd.recentComposer)))]
              /\ pc' = "fcdGlobalClose"
         ELSE /\ pc' = "fcdGlobalCatch"
              /\ UNCHANGED fcd
  /\ UNCHANGED <<dbFrame, messages, rwd, handles, held>>

\* what the fetched record gives: parse, then processComposerContent
ComposerOutput ==
  LET value == fcd.composerContent.value
  IN  IF HasValue(fcd.composerContent) /\ value.k = "json"
        THEN processComposerContent(Root(value.v), fcd.recentComposer)
        ELSE <<>>

\* await globalDb.close(); globalDb = null; then the fetched record
FcdGlobalClose ==
  /\ pc = "fcdGlobalClose"
  /\ trace' = Append(trace, Event("global.close", <<>>))
  /\ \E ok \in BOOLEAN :
       /\ handles' = CloseCalled(handles, "global", ok)
       /\ IF ok
            THEN /\ fcd' = [FcdReturn(ComposerOutput) EXCEPT !.globalDb = "null"]
                 /\ pc' = "rwdAfter"
                 /\ UNCHANGED held
            ELSE /\ held' = ComposerOutput
                 /\ pc' = "fcdGlobalCatch"
                 /\ UNCHANGED fcd
  /\ UNCHANGED <<dbFrame, messages, rwd>>

\* catch (dbError): if (globalDb) await globalDb.close(); whether or not
\* this close throws, the function ends with return []
FcdGlobalCatch ==
  /\ pc = "fcdGlobalCatch"
  /\ trace' = Append(trace, Event("global.close", <<>>))
  /\ \E ok \in BOOLEAN : handles' = CloseCalled(handles, "global", ok)
  /\ fcd' = FcdReturn(<<>>)
  /\ pc' = "rwdAfter"
  /\ UNCHANGED <<dbFrame, messages, rwd, held>>

\* the outer catch: close db and globalDb when set, return []
FcdCatch ==
  /\ pc = "fcdCatch"
  /\ \E ok1, ok2 \in BOOLEAN :
       handles' = LET h1 == IF fcd.db = "ref"
                              THEN CloseCalled(handles, "fcd", ok1) ELSE handles
                  IN  IF fcd.globalDb = "ref" THEN CloseCalled(h1, "global", ok2) ELSE h1
  /\ trace' = IF fcd.db = "ref" THEN Append(trace, Event("fcd.close", <<>>)) ELSE trace
  /\ fcd' = FcdReturn(<<>>)
  /\ pc' = "rwdAfter"
  /\ UNCHANGED <<dbFrame, messages, rwd, held>>

NextDb ==
  \/ FindWorkspace
  \/ RwdOpen
  \/ RwdPragma
  \/ RwdTables
  \/ RwdGet
  \/ RwdLike
  \/ RwdProcess
  \/ RwdCloseFound
  \/ RwdKvScan
  \/ RwdKvLoop
  \/ RwdKvClose
  \/ RwdClose
  \/ RwdCatch
  \/ RwdAfterComposer
  \/ EcResult
  \/ FcdOpen
  \/ FcdPragma
  \/ FcdTables
  \/ FcdGet
  \/ FcdLike
  \/ FcdClose
  \/ FcdSelect
  \/ FcdGlobalOpen
  \/ FcdGlobalPragma
  \/ FcdGlobalTable
  \/ FcdGlobalGet
  \/ FcdGlobalClose
  \/ FcdGlobalCatch
  \/ FcdCatch

(***************************************************************************)
(* Calls of the helper functions on their own.                             *)
(***************************************************************************)
RoleFunction(name, msg) ==
  CASE name = "determineRoleDb" -> determineRoleDb(msg)
    [] name = "determineRole" -> determineRole(msg)
    [] name = "determineRoleShare" -> determineRoleShare(msg)

\* determineRole(msg)
CallDetermineRole ==
  /\ entry \in {"determineRoleDb", "determineRole", "determineRoleShare"}
  /\ pc = "call"
  /\ IF determineRoleThrows(Root(context))
       THEN /\ raised' = TRUE
            /\ thrown' = "TypeError"
            /\ UNCHANGED result
       ELSE /\ result' = RoleFunction(entry, Root(context))
            /\ UNCHANGED <<raised, thrown>>
  /\ pc' = "done"
  /\ UNCHANGED <<entry, messages, trace, memVars, fsys, wsStore, globalStore, workspaceId,
                 rwd, fcd, handles, held>>

\* the content coercion inside the map callback of extractFromConversation
\* and extractFromMessagesOrHistory, on one message record
CallCoerceContent ==
  /\ entry = "coerceContent" /\ pc = "call"
  /\ result' = CoerceFull(Root(context))
  /\ pc' = "done"
  /\ UNCHANGED <<entry, messages, raised, trace, memVars, dbVars>>

\* truncateLongMessages(messages)
CallTruncate ==
  /\ entry = "truncateLongMessages" /\ pc = "call"
  /\ result' = truncateLongMessages(messages)
  /\ pc' = "done"
  /\ UNCHANGED <<entry, messages, raised, trace, memVars, dbVars>>

\* findComposerData from the parsed index to recentComposer
CallSelectComposer ==
  /\ entry = "selectComposer" /\ pc = "call"
  /\ LET sortedComposers == SortedComposers(Root(context))
     IN  result' = IF sortedComposers # <<>> THEN sortedComposers[1].v ELSE Undef
  /\ pc' = "done"
  /\ UNCHANGED <<entry, messages, raised, trace, memVars, dbVars>>

\* processChatData(chatData) on a parsed record
CallProcessChatData ==
  /\ entry = "processChatData" /\ pc = "call"
  /\ result' = processChatData(Root(context))
  /\ pc' = "done"
  /\ UNCHANGED <<entry, messages, raised, trace, memVars, dbVars>>

NextCall ==
  \/ CallTruncate
  \/ CallProcessChatData
  \/ CallSelectComposer
  \/ CallDetermineRole
  \/ CallCoerceContent

(***************************************************************************)
(* handleShareChat(title, context), share.ts.                              *)
(***************************************************************************)
\* if (conversation.length === 0) conversation.push(notice)
ConversationOrNotice(conversation) ==
  IF Len(conversation) = 0 THEN <<ShareNotice>> ELSE conversation

\* shareData.messages = conversation.map(msg => ({role, text: msg.content}))
ShareEntries(conversation) ==
  [i \in 1..Len(conversation) |->
     [role |-> conversation[i].role, text |-> conversation[i].content]]

\* `${config.apiEndpoint}/share/${shareId}`
generateShareUrl(shareId) == Str(<<"apiEndpoint", "/share/">> \o shareId.s)

\* catch (error) { throw new Error(`分享失败: ...`) }
ShareFails ==
  /\ raised' = TRUE
  /\ thrown' = "ShareFailed"
  /\ pc' = "done"

\* from the call of extractConversation to the await of axios.post.  A
\* Promise has no length and no map: the test of an empty conversation is
\* false and conversation.map raises a TypeError into the catch.
ShareExtractAndPost ==
  /\ entry = "handleShareChat" /\ pc = "call"
  /\ \E ext \in ShareExtractions :
       IF ext.kind = "list"
         THEN /\ messages' = ConversationOrNotice(ext.msgs)
              /\ trace' = <<Event("extractConversation", ext),
                            Event("axios.post", ShareEntries(messages'))>>
              /\ pc' = "await"
              /\ UNCHANGED <<raised, thrown>>
         ELSE /\ trace' = <<Event("extractConversation", ext)>>
              /\ ShareFails
              /\ UNCHANGED messages
  /\ UNCHANGED <<entry, result, memVars, fsys, wsStore, globalStore, workspaceId, rwd, fcd,
                 handles, held>>

\* from the settled axios.post to the return or the throw
ShareRespond ==
  /\ entry = "handleShareChat" /\ pc = "await"
  /\ \E response \in ShareResponses :
       /\ trace' = Append(trace, Event("axios.response", response))
       /\ IF response.ok /\ Truthy(response.data)
               /\ Truthy(Prop(Root(response.data), "shareId").v)
            THEN LET shareId == Prop(Root(response.data), "shareId").v
                     given == Prop(Root(response.data), "shareUrl").v
                     shareUrl == IF Truthy(given) THEN given ELSE generateShareUrl(shareId)
                 IN  /\ result' = Obj(<<F("shareId", shareId), F("shareUrl", shareUrl)>>)
                     /\ pc' = "done"
                     /\ UNCHANGED <<raised, thrown>>
            ELSE /\ ShareFails
                 /\ UNCHANGED result
  /\ UNCHANGED <<entry, messages, memVars, fsys, wsStore, globalStore, workspaceId, rwd, fcd,
                 handles, held>>

NextShare ==
  \/ ShareExtractAndPost
  \/ ShareRespond

Next == NextMem \/ NextDb \/ NextCall \/ NextShare

Spec == Init /\ [][Next]_vars

(***************************************************************************)
(* Properties.                                                             *)
(***************************************************************************)
Done == pc = "done"

\* the in-memory extractConversation returned a list
MemReturned == entry = "mem" /\ Done /\ ~raised

\* the database extractConversation returned a list
DbReturned == entry = "db" /\ Done

NonBlank(content) == IsStr(content) /\ Trim(content.s) # <<>>

\* C1: every message of the list either entry point returns has a content
\* that is non-empty after trimming, the single-text fallbacks included
C1_ContentNonEmpty ==
  (MemReturned \/ DbReturned) => \A i \in 1..Len(result) : NonBlank(result[i].content)

(***************************************************************************)
(* Well-formed fixtures: every entry is {role, content} or {role, text}    *)
(* with a canonical role and a string body.                                *)
(***************************************************************************)
WellFormedEntry(e) ==
  /\ e.t = "obj" /\ Len(e.kv) = 2
  /\ e.kv[1][1] = <<"role">> /\ IsCanonicalRole(e.kv[1][2])
  /\ e.kv[2][1] \in {<<"content">>, <<"text">>} /\ IsStr(e.kv[2][2])

WellFormedArray(a) == a.t = "arr" /\ \A i \in 1..Len(a.e) : WellFormedEntry(a.e[i])

EntryRole(e) == e.kv[1][2]
EntryBody(e) == e.kv[2][2]

\* the entries with a non-empty body, in their order
NonEmptyEntries(a) == SelectSeq(a.e, LAMBDA e : Trim(EntryBody(e).s) # <<>>)

ExpectedMessages(a) ==
  LET kept == NonEmptyEntries(a)
  IN  [i \in 1..Len(kept) |-> Msg(EntryRole(kept[i]), EntryBody(kept[i]))]

ExpectedStoreMessages(a) ==
  LET kept == NonEmptyEntries(a)
  IN  [i \in 1..Len(kept) |-> MsgT(EntryRole(kept[i]), EntryBody(kept[i]), Undef)]

\* the context is a fixture of the keyed shape k
IsFixture(k) ==
  /\ context.t = "obj" /\ Len(context.kv) = 1
  /\ context.kv[1][1] = <<k>>
  /\ WellFormedArray(context.kv[1][2])

ParserOf(k) ==
  CASE k = "chatHistory" -> "chatHistory"
    [] k = "conversation" -> "conversation"
    [] k = "bubbles" -> "bubbles"
    [] k \in {"messages", "history"} -> "messagesOrHistory"

\* the parser p ran and this is what it returned
ParserReturned(p, out) == \E i \in 1..Len(trace) : trace[i] = Event(p, out)

ParserRan(p) == \E i \in 1..Len(trace) : trace[i].p = p

\* readWorkspaceData is past its call of processChatData
ChatDataProcessed == pc \in {"rwdCloseFound", "rwdKv"}

\* C2: on a well-formed fixture of each supported shape the parser returns
\* exactly the entries with a non-empty trimmed body, in the original order
C2_FixtureOrderPreserved ==
  /\ entry = "mem" =>
       /\ \A k \in ShapeKeys :
            IsFixture(k) =>
              /\ \A i \in 1..Len(trace) :
                   trace[i].p = ParserOf(k) =>
                     trace[i].out = ExpectedMessages(context.kv[1][2])
              /\ Done => /\ ParserRan(ParserOf(k))
                         /\ result = ExpectedMessages(context.kv[1][2])
       /\ WellFormedArray(context) =>
            /\ \A i \in 1..Len(trace) :
                 trace[i].p = "arrayContext" => trace[i].out = ExpectedMessages(context)
            /\ Done => ParserRan("arrayContext") /\ result = ExpectedMessages(context)
  /\ entry = "db" /\ ChatDataProcessed /\ HasValue(rwd.chatResult) =>
       \A a \in StoreArrays :
         /\ WellFormedArray(a)
         /\ rwd.chatResult.value \in
              {Json(TabsDoc(a)), Json(ChatsDoc(a)), Json(MessagesDoc(a)),
               Json(ConversationDoc(a))}
         => messages = ExpectedStoreMessages(a)

\* a bubbles fixture of two entries, one of them blank: the parser returned
\* the other one, and it is the result
C2_Witness ==
  /\ entry = "mem" /\ Done
  /\ IsFixture("bubbles")
  /\ Len(context.kv[1][2].e) = 2
  /\ Len(NonEmptyEntries(context.kv[1][2])) = 1
  /\ ParserReturned("bubbles", result)
  /\ Len(result) = 1

\* C3: every message the in-memory extractConversation returns has a role
\* among user, assistant, system, function
C3_RoleCanonical ==
  MemReturned => \A i \in 1..Len(result) : IsCanonicalRole(result[i].role)

(***************************************************************************)
(* The order of the parsers.                                               *)
(***************************************************************************)
FirstNonEmpty(outs) ==
  IF \E i \in 1..Len(outs) : outs[i] # <<>>
    THEN outs[CHOOSE i \in 1..Len(outs) :
                outs[i] # <<>> /\ \A j \in 1..(i - 1) : outs[j] = <<>>]
    ELSE <<>>

\* chat-history, conversation, bubbles, messages/history, flat array
ShapeOutputs ==
  <<extractFromChatHistory(Root(context), debug),
    extractFromConversation(Root(context), debug),
    extractFromBubbles(Root(context), debug),
    extractFromMessagesOrHistory(Root(context), debug),
    extractFromArrayContext(Root(context), debug)>>

\* the same with the cursor-specific parser at the head
PriorityOutputs == <<extractFromCursorSpecific(Root(context), debug)>> \o ShapeOutputs

RecursionInvoked == pc \in {"recursiveCall", "recursive"} \/ ParserRan("recursive") \/ raised

\* the result when the first non-empty list of outs is returned and the
\* recursive search runs only when outs are all empty
ReturnsFirstOf(outs) ==
  /\ entry = "mem" /\ RecursionInvoked => FirstNonEmpty(outs) = <<>>
  /\ MemReturned /\ Truthy(context) /\ FirstNonEmpty(outs) # <<>> =>
       result = truncateLongMessages(FirstNonEmpty(outs))
  /\ MemReturned /\ Truthy(context) /\ FirstNonEmpty(outs) = <<>> =>
       ParserReturned("recursive", messages) /\ result = truncateLongMessages(messages)

\* C4 (as stated): the result is that of the first non-empty parser in the
\* order chat-history, conversation, bubbles, messages/history, flat array;
\* nothing else takes precedence; recursion only when these are all empty
C4_ShapeOrderOnly == ReturnsFirstOf(ShapeOutputs)

\* C4 (amended): the order is cursor-specific, chat-history (with its local
\* chat history fallback), conversation, bubbles, messages/history, flat
\* array; the first non-empty list is returned, truncated; recursion only
\* when all six are empty
C4_PriorityOrder == ReturnsFirstOf(PriorityOutputs)

\* the cursor-specific parser and the conversation parser both have
\* messages, and the cursor-specific ones are returned
C4_Witness ==
  /\ MemReturned
  /\ extractFromCursorSpecific(Root(context), debug) # <<>>
  /\ extractFromConversation(Root(context), debug) # <<>>
  /\ extractFromConversation(Root(context), debug)
       # extractFromCursorSpecific(Root(context), debug)
  /\ result = extractFromCursorSpecific(Root(context), debug)

\* C5: findMessagesRecursively terminates on every self-referential graph,
\* through object properties or array elements, without raising
C5_TerminatesWithoutRaising == entry = "mem" => ~raised

(***************************************************************************)
(* The depth-first search with the depth counted in nesting steps: the     *)
(* root is level 1 and a value below level DepthCap is not searched.       *)
(***************************************************************************)
RECURSIVE NestedSearch(_, _)
NestedSearch(cur, level) ==
  IF ~Truthy(cur.v) \/ cur.v.t \notin {"obj", "arr"} \/ level > DepthCap
    THEN <<>>
  ELSE IF IsArray(cur.v) /\ Len(ArrayAsMessages(cur)) >= 2
    THEN ArrayAsMessages(cur)
  ELSE LET children == Children(cur)
       IN  FirstNonEmpty([i \in 1..Len(children) |->
                            NestedSearch(children[i].cur, level + 1)])

\* C6: when no known shape matches, the result is the first array in
\* depth-first order with at least two qualifying elements within 10 levels
\* of nesting, whatever the key names and whether through objects or arrays
C6_FirstArrayWithinNesting ==
  entry = "mem" /\ Done /\ Truthy(context) /\ FirstNonEmpty(PriorityOutputs) = <<>> =>
    ~raised /\ result = NestedSearch(Root(context), 1)

\* C7: a non-empty list returned by a call of findMessagesRecursively, at
\* any depth, has at least two elements, each made from an element of one
\* array that has a role-like and a content-like field
C7_NeverSingleMessage ==
  ret.set /\ ret.msgs # <<>> =>
    /\ Len(ret.msgs) >= 2
    /\ IsArray(found.v)
    /\ \A i \in 1..Len(ret.msgs) :
         \E j \in 1..Len(found.v.e) :
           LET item == Elems(found)[j]
           IN  /\ \E name \in {"role", "type", "sender", "isUser"} :
                    Prop(item, name).v # Undef
               /\ \E name \in {"content", "text", "message"} :
                    Prop(item, name).v # Undef
               /\ ret.msgs[i] = RecursiveConv(item)

\* a nested call returns the two messages of an array that follows a
\* single-message array
C7_Witness ==
  /\ ret.set /\ Len(ret.msgs) = 2 /\ Len(stack) >= 1
  /\ found.v = Arr(<<mText, mAsst>>)
  /\ Len(found.c) >= 1
  /\ found.c[Len(found.c)].t = "obj" /\ Len(found.c[Len(found.c)].kv) = 3

\* C8: when readWorkspaceData and findComposerData have returned, close()
\* has been called on every handle that was opened
C8_HandlesClosed ==
  DbReturned => \A h \in HandleNames : handles[h].state # "none" => handles[h].closeCalled

\* C9: a failing close() does not change the outcome: the messages in hand
\* when it failed are the messages returned
C9_CloseFailureKeepsMessages ==
  rwd.returned /\ held # <<>> => rwd.out = held

(***************************************************************************)
(* The stages of the database path: 1 the known-key probe of ItemTable,    *)
(* 2 the cursorDiskKV scan, 3 the composer resolution.                     *)
(***************************************************************************)
StageOf(p) ==
  CASE p \in {"rwd.get", "rwd.like"} -> 1
    [] p = "rwd.kvscan" -> 2
    [] p \in {"fcd.open", "fcd.exec", "fcd.tables", "fcd.get", "fcd.like", "fcd.close",
              "global.open", "global.exec", "global.table", "global.get",
              "global.close"} -> 3
    [] OTHER -> 0

YieldOf(p) ==
  CASE p = "yield1" -> 1
    [] p = "yield2" -> 2
    [] OTHER -> 0

\* C10: the store operations of the stages come in stage order, and after a
\* stage has yielded a non-empty list no operation of a later stage follows
C10_StagesShortCircuit ==
  \A i, j \in 1..Len(trace) :
    i < j =>
      /\ StageOf(trace[i].p) > 0 /\ StageOf(trace[j].p) > 0 =>
           StageOf(trace[i].p) <= StageOf(trace[j].p)
      /\ YieldOf(trace[i].p) > 0 => StageOf(trace[j].p) <= YieldOf(trace[i].p)

(***************************************************************************)
(* The outcome of the database path as its caller sees it.                 *)
(***************************************************************************)
\* what extractConversation() gives its caller for a workspace whose store
\* holds no chat data: the promise resolves to []
EmptyWorkspaceOutcome == [raised |-> FALSE, result |-> <<>>]

Outcome == [raised |-> raised, result |-> result]

\* C11: when the storage root is missing or no directory holds the store
\* file, the caller of the database extractConversation gets a failure that
\* differs from the outcome of a workspace without chat data
C11_EnvironmentErrorDistinguishable ==
  DbReturned /\ WorkspaceError(fsys) # "" => Outcome # EmptyWorkspaceOutcome

\* a stage of the database path produced a non-empty list
StageYielded ==
  \/ \E i \in 1..Len(trace) : YieldOf(trace[i].p) > 0 /\ trace[i].out # <<>>
  \/ fcd.out # <<>>

\* C12: the database extractConversation never rejects; what it resolves to
\* is a list, and the list is empty when no stage produced messages
C12_AlwaysResolvesToList ==
  entry = "db" =>
    /\ ~raised
    /\ Done => /\ DOMAIN result = 1..Len(result)
               /\ ~StageYielded => result = <<>>

\* workspace discovery threw and the caller received the empty list
C12_Witness == DbReturned /\ thrown # "" /\ ~raised /\ result = <<>>

\* C13: the in-memory extractConversation returns a list without raising
\* for every context, and the empty list for an absent or empty context
C13_MemNeverRaises ==
  entry = "mem" /\ Done =>
    /\ ~raised
    /\ ~Truthy(context) \/ context = Obj(<<>>) => result = <<>>

(***************************************************************************)
(* determineRole.                                                          *)
(***************************************************************************)
RoleCalled == entry \in {"determineRoleDb", "determineRole", "determineRoleShare"} /\ Done

\* the record carries none of role, isUser, type, sender
NoRoleSignal(msg) ==
  \A name \in {"role", "isUser", "type", "sender"} : Prop(msg, name).v = Undef

\* C14: a canonical role field is returned whatever isUser, type and
\* sender hold, and a record without any role signal gives user
C14_ExplicitRoleWins ==
  RoleCalled /\ ~raised =>
    /\ IsCanonicalRole(Prop(Root(context), "role").v) =>
         result = Prop(Root(context), "role").v
    /\ NoRoleSignal(Root(context)) => result = W("user")

\* role "assistant" next to type "human" and isUser true gave assistant
C14_Witness ==
  /\ RoleCalled /\ ~raised
  /\ StrIs(Prop(Root(context), "role").v, "assistant")
  /\ StrIs(Prop(Root(context), "type").v, "human")
  /\ Prop(Root(context), "isUser").v = Bool(TRUE)
  /\ result = W("assistant")

\* C15: determineRole returns one of the four role tags for every
\* argument, null and undefined included, and raises nothing
C15_DetermineRoleTotal ==
  entry = "determineRoleDb" /\ Done => ~raised /\ IsCanonicalRole(result)

(***************************************************************************)
(* The content coercion of the shape parsers.                              *)
(***************************************************************************)
\* what each of the four attempts reads from the record, "" when the
\* attempt does not apply
CoercionAttempts(msg) ==
  LET c == Prop(msg, "content")
      t == Prop(msg, "text").v
  IN  << IF IsStr(c.v) THEN c.v.s ELSE <<>>,
         IF IsStr(t) THEN t.s ELSE <<>>,
         IF Truthy(c.v) /\ IsStr(Prop(c, "text").v) THEN Prop(c, "text").v.s ELSE <<>>,
         IF IsArray(c.v) THEN JoinLF([i \in 1..Len(c.v.e) |-> PartText(Elems(c)[i])])
                         ELSE <<>> >>

\* C16: the coercion gives the first of content, text, content.text and
\* the joined array content that is a non-empty string, and the empty
\* string only when none is
C16_CoercionFallsThrough ==
  entry = "coerceContent" /\ Done =>
    LET as == CoercionAttempts(Root(context))
        hits == {i \in 1..4 : as[i] # <<>>}
    IN  IF hits = {} THEN result = EmptyStr
        ELSE result = Str(as[CHOOSE i \in hits : \A j \in hits : i <= j])

(***************************************************************************)
(* truncateLongMessages.                                                   *)
(***************************************************************************)
Truncated == entry = "truncateLongMessages" /\ Done

\* C17: truncating twice gives what truncating once gives; a content of at
\* most MAX_LENGTH characters is returned unchanged and a longer one
\* becomes its first MAX_LENGTH characters followed by the marker
C17_TruncationIdempotent ==
  Truncated =>
    /\ truncateLongMessages(result) = result
    /\ Len(result) = Len(messages)
    /\ \A i \in 1..Len(messages) :
         IF StrLength(messages[i].content) <= MAX_LENGTH
           THEN result[i] = messages[i]
           ELSE /\ StrLength(result[i].content) = MAX_LENGTH + Len(TruncationMarker)
                /\ Substring(result[i].content, MAX_LENGTH) =
                     Substring(messages[i].content, MAX_LENGTH)
                /\ result[i].content =
                     Concat(Substring(result[i].content, MAX_LENGTH), TruncationMarker)
                /\ [result[i] EXCEPT !.content = EmptyStr] =
                     [messages[i] EXCEPT !.content = EmptyStr]

\* a list with a content one character over the cap and a content that
\* already ends in the marker was truncated
C17_Witness ==
  /\ Truncated
  /\ \E i \in 1..Len(messages) :
       /\ StrLength(messages[i].content) = MAX_LENGTH + 1
       /\ StrLength(result[i].content) = MAX_LENGTH + Len(TruncationMarker)
  /\ \E i \in 1..Len(messages) :
       /\ messages[i].content = Concat(LongText(MAX_LENGTH), TruncationMarker)
       /\ result[i] = messages[i]

(***************************************************************************)
(* findRecentWorkspaceId.                                                  *)
(***************************************************************************)
WorkspaceLocated == entry = "db" /\ pc # "findWorkspace"

HasDatabase(i) == fsys.dirs[i].hasDb

\* C18: the id returned is that of a directory that contains state.vscdb
\* and whose file is at least as recent as that of every other such
\* directory; an id is returned whenever the root holds such a directory
C18_MostRecentWithDatabase ==
  WorkspaceLocated =>
    /\ workspaceId # "" =>
         \E i \in 1..Len(fsys.dirs) :
           /\ fsys.dirs[i].id = workspaceId
           /\ HasDatabase(i)
           /\ \A j \in 1..Len(fsys.dirs) :
                HasDatabase(j) => fsys.dirs[j].mtime <= fsys.dirs[i].mtime
    /\ fsys.rootOk /\ (\E i \in 1..Len(fsys.dirs) : HasDatabase(i)) => workspaceId # ""

\* the only directory with the file is listed after one without it and is
\* the one returned
C18_Witness ==
  /\ WorkspaceLocated
  /\ Len(fsys.dirs) = 2 /\ ~HasDatabase(1) /\ HasDatabase(2)
  /\ workspaceId = fsys.dirs[2].id

\* C19: a missing storage root, a root without directories and a root
\* without a directory holding the file each fail with an error of their
\* own, and no workspace id is returned
C19_ThreeNamedFailures ==
  WorkspaceLocated =>
    /\ ~fsys.rootOk => thrown = "WorkspacePathNotFound" /\ workspaceId = ""
    /\ fsys.rootOk /\ fsys.dirs = <<>> =>
         thrown = "NoWorkspaceDirectories" /\ workspaceId = ""
    /\ fsys.rootOk /\ fsys.dirs # <<>> /\ (\A i \in 1..Len(fsys.dirs) : ~HasDatabase(i)) =>
         thrown = "NoDirectoryWithDatabase" /\ workspaceId = ""
    /\ thrown = "" => workspaceId # ""

\* the root exists and holds nothing: the error of the empty listing
C19_Witness ==
  /\ WorkspaceLocated /\ fsys.rootOk /\ fsys.dirs = <<>>
  /\ thrown = "NoWorkspaceDirectories" /\ workspaceId = ""

(***************************************************************************)
(* The composer chosen from an index.                                      *)
(***************************************************************************)
ComposerSelected == entry = "selectComposer" /\ Done

IndexEntries == Elems(Prop(Root(context), "allComposers"))

HasUpdatedAt(c) == Prop(c, "lastUpdatedAt").v # Undef

\* C20: the entry chosen has the greatest lastUpdatedAt of those that have
\* one and is the earliest of the entries with that value; an entry without
\* the field is chosen only when no entry has it, and then the first is
C20_GreatestLastUpdatedAt ==
  ComposerSelected =>
    LET es == IndexEntries
        dated == {i \in 1..Len(es) : HasUpdatedAt(es[i])}
        top == {i \in dated :
                  \A j \in dated : Prop(es[j], "lastUpdatedAt").v.n
                                     <= Prop(es[i], "lastUpdatedAt").v.n}
        first(S) == CHOOSE i \in S : \A j \in S : i <= j
    IN  IF dated = {} THEN result = es[1].v
        ELSE result = es[first(top)].v

(***************************************************************************)
(* findComposerData and the global store.                                  *)
(***************************************************************************)
\* the composer findComposerData chose from the index it found
SelectedComposer ==
  IF HasValue(fcd.composerResult) THEN RecentComposer(fcd.composerResult.value)
  ELSE Root(Null)

ComposerChosen == entry = "db" /\ fcd.returned /\ ~Nullish(SelectedComposer.v)

GlobalFileMissing == ~fsys.globalFile

NoExpectedTable == globalStore.tables \cap {"cursorDiskKV", "ItemTable"} = {}

\* the table that was queried holds no record under composerData:<id>
NoComposerRecord ==
  /\ fcd.tableName # ""
  /\ ~HasValue(Lookup(GlobalRows(fcd.tableName), ComposerKey(ComposerId(SelectedComposer))))

\* C21: with a composer chosen, a missing global store file, a global
\* store without cursorDiskKV and ItemTable, or no record under the
\* composer's key makes findComposerData return [] without raising
C21_GlobalStoreDegrades ==
  ComposerChosen /\ (GlobalFileMissing \/ NoExpectedTable \/ NoComposerRecord) =>
    fcd.out = <<>> /\ ~raised

\* the queried table exists and was read, and held no record for the
\* chosen composer
C21_Witness ==
  /\ ComposerChosen /\ ~GlobalFileMissing /\ NoComposerRecord
  /\ fcd.tableName \in globalStore.tables
  /\ \E i \in 1..Len(trace) : trace[i].p = "global.get"
  /\ handles["global"].state = "closed"
  /\ fcd.out = <<>>

(***************************************************************************)
(* The known-key lookups of readWorkspaceData and findComposerData.        *)
(***************************************************************************)
CountEvents(p) == Cardinality({i \in 1..Len(trace) : trace[i].p = p})

Occurred(p) == \E i \in 1..Len(trace) : trace[i].p = p

\* the position of the first key of keys whose ItemTable row has a value,
\* 0 when no key has one
FirstHit(keys) ==
  LET hits == {k \in 1..Len(keys) : HasValue(Lookup(wsStore.item, keys[k]))}
  IN  IF hits = {} THEN 0 ELSE CHOOSE k \in hits : \A j \in hits : k <= j

\* the lookups of one function: get events counted by gets, the pattern
\* scan named like, the row kept in kept, the loop position idx at pc at
KeysInOrder(keys, gets, like, kept, idx, at) ==
  LET hit == FirstHit(keys)
  IN  /\ CountEvents(gets) <= (IF hit = 0 THEN Len(keys) ELSE hit)
      /\ pc = at => idx = CountEvents(gets) + 1
      /\ Occurred(like) => hit = 0 /\ CountEvents(gets) = Len(keys)
      /\ HasValue(kept) /\ ~Occurred(like) =>
           /\ hit # 0 /\ CountEvents(gets) = hit
           /\ kept = Lookup(wsStore.item, keys[hit])

\* C22: the known keys are looked up one at a time in list order, the
\* lookups stop at the first key whose row has a value, and the pattern
\* scan is issued only when no known key has one
C22_KeysInOrderFirstHit ==
  entry = "db" =>
    /\ KeysInOrder(possibleKeys, "rwd.get", "rwd.like", rwd.chatResult, rwd.idx, "rwdKeys")
    /\ KeysInOrder(composerKeys, "fcd.get", "fcd.like", fcd.composerResult, fcd.idx,
                   "fcdKeys")

\* two chat keys have a value: readWorkspaceData stopped at the first after
\* one lookup, and findComposerData hit on its seventh key without a scan
C22_Witness ==
  /\ DbReturned
  /\ FirstHit(possibleKeys) = 1
  /\ \E k \in 2..Len(possibleKeys) : HasValue(Lookup(wsStore.item, possibleKeys[k]))
  /\ CountEvents("rwd.get") = 1 /\ ~Occurred("rwd.like")
  /\ rwd.chatResult.key = possibleKeys[1]
  /\ CountEvents("fcd.get") = Len(composerKeys) /\ ~Occurred("fcd.like")
  /\ fcd.composerResult.key = composerKeys[Len(composerKeys)]

(***************************************************************************)
(* processChatData: which tab and which chat the messages come from.       *)
(***************************************************************************)
ChatDataCalled == entry = "processChatData" /\ Done

\* the messages of the output come from the places named in tags
FromOnly(tags) == \A i \in 1..Len(result) : \E g \in tags : result[i].content = W(g)

\* the one message {role: user, content: tag} converted
Converted(tag) == <<MsgT(W("user"), W(tag), Undef)>>

HolderOutput(holder, key, tag) ==
  IF Prop(holder, key).v = Arr(<<>>) THEN <<>> ELSE Converted(tag)

UsableArray(v) == IsArray(v) /\ Len(v.e) > 0

\* the messages array when it is a non-empty array, else the history array
MessagesElseHistory(ctx) ==
  IF UsableArray(Prop(ctx, "messages").v) THEN Prop(ctx, "messages") ELSE Prop(ctx, "history")

\* C24: extractFromMessagesOrHistory converts the array under messages,
\* and the array under history whenever messages is absent, not an array
\* or an empty array
C24_HistoryWhenMessagesUnusable ==
  entry = "mem" =>
    \A i \in 1..Len(trace) :
      trace[i].p = "messagesOrHistory" =>
        LET src == MessagesElseHistory(Root(context))
        IN  trace[i].out =
              IF UsableArray(src.v)
                THEN MapFilter(Elems(src),
                               [j \in 1..Len(Elems(src)) |-> ConversationConv(Elems(src)[j])],
                               debug).msgs
                ELSE <<>>

\* the aliases of the type field
UserAliases == {W("user"), W("human"), Num(1)}
AssistantAliases == {W("assistant"), W("ai"), W("bot"), Num(2)}

\* C25: without a signal from role, isUser and type, a sender among the
\* aliases of user gives user and a sender among the aliases of assistant
\* gives assistant, the numeric aliases 1 and 2 included
C25_SenderAliases ==
  /\ entry = "determineRoleDb" /\ Done /\ ~raised
  /\ ~IsCanonicalRole(Prop(Root(context), "role").v)
  /\ Prop(Root(context), "isUser").v = Undef
  /\ Prop(Root(context), "type").v = Undef
  => /\ Prop(Root(context), "sender").v \in UserAliases => result = W("user")
     /\ Prop(Root(context), "sender").v \in AssistantAliases => result = W("assistant")

(***************************************************************************)
(* The store handles of the database path.                                 *)
(***************************************************************************)
OpenHandles == {h \in HandleNames : handles[h].state = "open"}

\* C26: at most one store handle is open at a time: the handle of
\* readWorkspaceData is closed before findComposerData opens one, and the
\* workspace handle of findComposerData before the global store is opened
C26_OneHandleOpen ==
  entry = "db" =>
    /\ Cardinality(OpenHandles) <= 1
    /\ handles["fcd"].state # "none" => handles["rwd"].state = "closed"
    /\ handles["global"].state # "none" => handles["fcd"].state = "closed"

\* the global store is open after both workspace handles were closed
C26_Witness ==
  /\ entry = "db"
  /\ handles["global"].state = "open"
  /\ handles["rwd"].state = "closed" /\ handles["fcd"].state = "closed"

(***************************************************************************)
(* The ItemTable stage of readWorkspaceData after a known key was found.   *)
(***************************************************************************)
\* the row of the first known key that has a value
HitRow == Lookup(wsStore.item, possibleKeys[FirstHit(possibleKeys)])

\* C27: once a known key has a value its record is the only ItemTable
\* record parsed: the pattern scan is not issued, the stage yields what
\* this record gives, and when that is nothing the stage yields nothing
\* and readWorkspaceData goes on to the cursorDiskKV scan
C27_OnlyFirstHitParsed ==
  entry = "db" /\ FirstHit(possibleKeys) # 0 =>
    /\ ~Occurred("rwd.like")
    /\ HasValue(rwd.chatResult) => rwd.chatResult = HitRow
    /\ \A i \in 1..Len(trace) :
         trace[i].p = "yield1" => trace[i].out = processChatText(HitRow.value)
    /\ processChatText(HitRow.value) = <<>> =>
         /\ ~Occurred("yield1")
         /\ pc # "rwdCloseFound"

\* the first known key holds a record without messages and a later known
\* key a conversation: neither it nor the pattern scan was consulted, the
\* cursorDiskKV scan and the composer fallback ran, the result is empty
C27_Witness ==
  /\ DbReturned
  /\ FirstHit(possibleKeys) = 1
  /\ processChatText(HitRow.value) = <<>>
  /\ \E k \in 2..Len(possibleKeys) :
       LET row == Lookup(wsStore.item, possibleKeys[k])
       IN  HasValue(row) /\ processChatText(row.value) # <<>>
  /\ CountEvents("rwd.get") = 1 /\ ~Occurred("rwd.like")
  /\ Occurred("rwd.kvscan") /\ Occurred("fcd.open")
  /\ result = <<>>

(***************************************************************************)
(* A throw in the workspace-store stages of readWorkspaceData.             *)
(***************************************************************************)
WorkspaceStageOps == {"rwd.open", "rwd.exec", "rwd.tables", "rwd.get", "rwd.like"}

\* the catch of readWorkspaceData was entered by a throw of operation p
CaughtAfter(p) ==
  \E i \in 2..Len(trace) : trace[i].p = "rwd.catch" /\ trace[i - 1].p = p

\* C28: after a throw of open, PRAGMA exec, the table listing, a key
\* lookup or the pattern scan, readWorkspaceData returns [] and
\* findComposerData is never called
C28_ThrowSkipsFallback ==
  entry = "db" /\ (\E p \in WorkspaceStageOps : CaughtAfter(p)) =>
    /\ ~Occurred("fcd.open") /\ fcd = FcdInit
    /\ rwd.returned /\ rwd.out = <<>>
    /\ Done => result = <<>>

\* a key lookup threw in a store that holds a composer index: nothing was
\* asked of findComposerData and the result is empty
C28_Witness ==
  /\ DbReturned
  /\ CaughtAfter("rwd.get")
  /\ HasValue(Lookup(wsStore.item, composerKeys[1]))
  /\ ~Occurred("fcd.open")
  /\ result = <<>>

(***************************************************************************)
(* The debug flag and the result of the in-memory extractConversation.     *)
(***************************************************************************)
\* what parser p returns for the context when config.debug is dbg
OutputOf(p, dbg) ==
  CASE p = "cursorSpecific" -> extractFromCursorSpecific(Root(context), dbg)
    [] p = "chatHistory" -> extractFromChatHistory(Root(context), dbg)
    [] p = "conversation" -> extractFromConversation(Root(context), dbg)
    [] p = "bubbles" -> extractFromBubbles(Root(context), dbg)
    [] p = "messagesOrHistory" -> extractFromMessagesOrHistory(Root(context), dbg)
    [] p = "arrayContext" -> extractFromArrayContext(Root(context), dbg)

FlatParsers ==
  {"cursorSpecific", "chatHistory", "conversation", "bubbles", "messagesOrHistory",
   "arrayContext"}

\* C29: the result does not depend on config.debug: every parser the call
\* ran returned what it returns with the flag inverted, so the call with
\* the flag inverted takes the same path to the same list
C29_DebugIndependent ==
  entry = "mem" =>
    \A i \in 1..Len(trace) :
      trace[i].p \in FlatParsers => trace[i].out = OutputOf(trace[i].p, ~debug)

(***************************************************************************)
(* What handleShareChat posts and when it returns.                         *)
(***************************************************************************)
EventsOf(p) == SelectSeq(trace, LAMBDA e : e.p = p)

SharePosts == EventsOf("axios.post")

ShareExtracted == EventsOf("extractConversation")

CarriesShareId(response) ==
  response.ok /\ Truthy(response.data) /\ Truthy(Prop(Root(response.data), "shareId").v)

\* what the statement has handleShareChat post for an extraction
ExpectedPost(msgs) ==
  IF msgs = <<>> THEN <<[role |-> W("system"), text |-> W("notice")]>>
  ELSE [i \in 1..Len(msgs) |-> [role |-> msgs[i].role, text |-> msgs[i].content]]

SharePostsAsStated ==
  /\ \A i \in 1..Len(SharePosts) : SharePosts[i].out # <<>>
  /\ \A i \in 1..Len(ShareExtracted) :
       ShareExtracted[i].out.kind # "throw" =>
         /\ Len(SharePosts) = 1
         /\ SharePosts[1].out = ExpectedPost(ShareExtracted[i].out.msgs)

ShareReturnsAsStated ==
  Done =>
    /\ ~raised =>
         /\ Len(EventsOf("axios.response")) = 1
         /\ CarriesShareId(EventsOf("axios.response")[1].out)
         /\ Prop(Root(result), "shareId").v =
              Prop(Root(EventsOf("axios.response")[1].out.data), "shareId").v
    /\ raised => result = Null /\ thrown = "ShareFailed"
    /\ \A i \in 1..Len(EventsOf("axios.response")) :
         ~CarriesShareId(EventsOf("axios.response")[i].out) => raised

=============================================================================
